---- MODULE Spec2Model ----
(***************************************************************************)
(* State-machine model of the xdeck-scraper concurrency layer:             *)
(*   - TweetScraper polling cycles (tweet_scraper.py),                     *)
(*   - the TwitterNewsBot polling loop and daily batch (main.py),          *)
(*   - the with_retry decorator (error_handler.py).                        *)
(* Tweet ids are positive naturals; None (0) is the absent id.             *)
(***************************************************************************)
EXTENDS Naturals, Integers, Sequences, FiniteSets, TLC

\* ---------------------------------------------------------------- bounds
NumColumns == 2
MaxTweets == 3
MaxRetriesBound == 4
MaxCrashes == 1
MaxTime == 4
MaxLogLen == 3
MaxRuns == 2
MaxBatch == 3
NumTokens == 20
MaxDiff == 4

\* Time is counted in ticks of 50 ms.
MinScrapeInterval == 2
MaxBackoff == 100
MaxConsecutiveErrors == 3

\* Confidences are counted in hundredths.
ConfidenceGate == 95
MaxApiRetries == 3

Columns == 1..NumColumns
None == 0
NoTime == -1

VARIABLES
    feed,               \* per column: the sequence the page shows, newest first
    latest_tweets,      \* TweetScraper.latest_tweets (in-memory DedupIndex)
    latest_tweets_file, \* data/latest_tweets.json
    column_file,        \* data/raw/<today>/column_<id>.json (the raw log)
    is_scraping,        \* TwitterNewsBot.is_scraping
    processing_lock,    \* TwitterNewsBot._processing_lock is held
    loop_pc,            \* position of run()/continuous_scraping
    is_monitoring,      \* argument of the scrape_all_columns call in flight
    task_state,         \* per column: state of the get_column_tweets task
    task_tweets,        \* per column: the tweet_data the task returned
    await_idx,          \* column whose task scrape_all_columns awaits next
    results,            \* scrape_all_columns' results (columns written)
    batch_pc,           \* stage process_daily_summaries is at, or "idle"
    batch_attempt,      \* attempt index of with_retry inside the stage
    stages_started,     \* stages invoked in the current/last batch run
    stages_completed,   \* stages that returned normally in that run
    fault_met,          \* some attempt of that run met a fault
    first_failure,      \* first stage of that run whose operation failed, or "none"
    batch_outcome,      \* how the last batch run left its try block
    crashes,            \* process restarts so far
    r_cfg,              \* with_retry: the RetryConfig
    r_pc,               \* with_retry: wrapper position
    r_attempt,          \* with_retry: loop variable attempt
    r_calls,            \* with_retry: invocations of func so far
    r_sleeps,           \* with_retry: delays slept so far
    r_errors,           \* with_retry: errors raised by func so far
    r_raised,           \* with_retry: error propagated to the caller
    ib_cfg,             \* initialize_browser: its RetryConfig
    ib_pc,              \* initialize_browser: position of wrapper and body
    ib_attempt,         \* initialize_browser: wrapper's loop variable attempt
    launches,           \* init_browser bodies run during the call
    launched,           \* of these, the ones whose launch succeeded
    now,                \* the event loop's clock, in ticks
    last_scrape_time,   \* TweetScraper.last_scrape_time (NoTime: no entry)
    error_count,        \* TweetScraper.error_count (no entry reads as 0)
    backoff,            \* per column: the backoff its last fetch slept
    failed_fetches,     \* per column: fetches that failed in a row
    consecutive_errors, \* continuous_scraping's consecutive_errors
    reinit_attempts,    \* initialize_browser calls made by continuous_scraping
    raw_columns,        \* the column files of a date, as DataProcessor reads them
    processed_file,     \* data/processed/processed_tweets_<date>.json
    agg_log,            \* per process_tweets run that saved: files loaded, file saved
    agg_result,         \* the latest process_tweets call: its inputs and how it ended
    g_tweets,           \* group_tweets: its argument tweets
    g_pc,               \* group_tweets: "idle", "analyze" (awaiting), "done"
    g_pool,             \* group_tweets: non_repost_tweets
    g_final,            \* group_tweets: final_tweets
    sim_attempt,        \* analyze_similarity: loop variable attempt
    sim_response,       \* analyze_similarity: the response of its latest pass
    sim_result,         \* analyze_similarity: what it returned
    c_pc,               \* process_chunk: "idle", "analyze" (awaiting), "done"
    c_valid,            \* process_chunk: valid_tweets of the group
    c_attempt,          \* process_chunk's analyze_similarity call: attempt
    c_status,           \* that call: status of the response of its latest pass
    c_refined,          \* process_chunk: refined_tweets
    rf_data,            \* refine_tweets: data['columns'] of the processed file
    rf_pc,              \* refine_tweets: "idle", "next", "column", "saved"
    rf_col,             \* refine_tweets: the column its loop is at
    refined_data,       \* refine_tweets: refined_data
    published,          \* per column: tweets the platform has published so far
    file_torn           \* per column: the raw log is a cut-off JSON text

scraper_vars == <<feed, latest_tweets, latest_tweets_file, column_file,
                  loop_pc, is_monitoring, task_state, task_tweets,
                  await_idx, results>>
batch_vars == <<batch_pc, batch_attempt, stages_started, stages_completed,
                fault_met, first_failure, batch_outcome>>
nest_vars == <<ib_cfg, ib_pc, ib_attempt, launches, launched>>
retry_vars == <<r_cfg, r_pc, r_attempt, r_calls, r_sleeps, r_errors, r_raised,
                nest_vars>>
monitor_vars == <<now, last_scrape_time, error_count, backoff, failed_fetches,
                  consecutive_errors, reinit_attempts>>
agg_vars == <<raw_columns, processed_file, agg_log, agg_result>>
chunk_vars == <<c_pc, c_valid, c_attempt, c_status, c_refined>>
rfile_vars == <<rf_data, rf_pc, rf_col, refined_data>>
refine_vars == <<g_tweets, g_pc, g_pool, g_final, sim_attempt, sim_response,
                 sim_result, chunk_vars, rfile_vars>>
env_vars == <<published, file_torn>>
vars == <<scraper_vars, is_scraping, processing_lock, batch_vars, crashes,
          retry_vars, monitor_vars, agg_vars, refine_vars, env_vars>>

Min(a, b) == IF a < b THEN a ELSE b

RECURSIVE Pow2(_)
Pow2(k) == IF k = 0 THEN 1 ELSE 2 * Pow2(k - 1)

Ids(s) == {s[i] : i \in 1..Len(s)}

\* ------------------------------------------------ tweet_scraper.py

\* Mutation of GetColumnTweetsInternal: the head is not compared with the
\* stored latest id.
GetColumnTweetsInternal_NoHeadCheck(tweets, mon, latest_id) ==
    IF mon /\ latest_id # None /\ Len(tweets) > 0
    THEN <<Head(tweets)>>
    ELSE tweets

\* What _get_column_tweets_internal returns for the tweet elements it found.
\* In monitoring mode with a stored latest id only the first element is
\* looked at: equal to the latest id -> [], otherwise [first_tweet].
GetColumnTweetsInternal(tweets, mon, latest_id) ==
    IF mon /\ latest_id # None /\ Len(tweets) > 0
    THEN IF Head(tweets) = latest_id THEN <<>> ELSE <<Head(tweets)>>
    ELSE tweets

\* Mutation of TweetsToSave: monitoring adds the new tweets at the end.
TweetsToSave_AtEnd(tweets, existing, mon) ==
    IF mon THEN existing \o tweets ELSE tweets

\* Mutation of TweetsToSave: the initial scrape merges with the existing
\* tweets as well.
TweetsToSave_AlwaysMerge(tweets, existing, mon) == tweets \o existing

\* What scrape_all_columns writes to the column file for a non-empty result.
TweetsToSave(tweets, existing, mon) ==
    IF mon THEN tweets \o existing ELSE tweets

\* save_latest_tweets: the dump of latest_tweets; an error is only logged.
SaveLatestTweets(mem, file, ok) == IF ok THEN mem ELSE file

NoTasks == [c \in Columns |-> "none"]
NoData == [c \in Columns |-> <<>>]

RECURSIVE TotalLen(_, _)
TotalLen(f, n) == IF n = 0 THEN 0 ELSE Len(f[n]) + TotalLen(f, n - 1)

RECURSIVE Total(_, _)
Total(f, n) == IF n = 0 THEN 0 ELSE f[n] + Total(f, n - 1)

\* The platform publishes a new tweet in a column; it appears at the top.
\* The tweets of a column are numbered in the order they are published.
Arrive(c) ==
    /\ Total(published, NumColumns) < MaxTweets
    /\ published' = [published EXCEPT ![c] = @ + 1]
    /\ feed' = [feed EXCEPT ![c] = <<published[c] + 1>> \o feed[c]]
    /\ UNCHANGED file_torn
    /\ UNCHANGED <<latest_tweets, latest_tweets_file, column_file, loop_pc,
                   is_monitoring, task_state, task_tweets,
                   await_idx, results>>
    /\ UNCHANGED <<is_scraping, processing_lock, batch_vars, crashes, retry_vars,
                   monitor_vars, agg_vars, refine_vars>>

\* scrape_all_columns up to its first await: one task per column is created.
CreateTasks(mon) ==
    /\ is_monitoring' = mon
    /\ task_state' = [c \in Columns |-> "pending"]
    /\ task_tweets' = NoData
    /\ await_idx' = 1
    /\ results' = {}
    /\ loop_pc' = "await"

\* run(): initial_scrape loads latest_tweets.json and scrapes every column
\* with is_monitoring=False.
InitialScrape ==
    /\ loop_pc = "initial"
    /\ latest_tweets' = latest_tweets_file
    /\ CreateTasks(FALSE)
    /\ UNCHANGED <<feed, latest_tweets_file, column_file>>
    /\ UNCHANGED <<is_scraping, processing_lock, batch_vars, crashes, retry_vars,
                   monitor_vars, agg_vars, refine_vars>>
    /\ UNCHANGED env_vars

\* Mutation of ContinuousScraping: monitor_tweets is called without looking
\* at is_scraping.
ContinuousScraping_NoFlagCheck ==
    /\ loop_pc = "check"
    /\ CreateTasks(TRUE)
    /\ UNCHANGED <<feed, latest_tweets, latest_tweets_file, column_file>>
    /\ UNCHANGED <<is_scraping, processing_lock, batch_vars, crashes, retry_vars,
                   monitor_vars, agg_vars, refine_vars>>
    /\ UNCHANGED env_vars

\* continuous_scraping, one loop iteration up to its first await: the flag is
\* observed; False -> sleep(1) and continue, True -> monitor_tweets().
ContinuousScraping ==
    /\ loop_pc = "check"
    /\ IF ~is_scraping
       THEN /\ loop_pc' = "paused"
            /\ UNCHANGED <<is_monitoring, task_state, task_tweets,
                           await_idx, results>>
       ELSE CreateTasks(TRUE)
    /\ UNCHANGED <<feed, latest_tweets, latest_tweets_file, column_file>>
    /\ UNCHANGED <<is_scraping, processing_lock, batch_vars, crashes, retry_vars,
                   monitor_vars, agg_vars, refine_vars>>
    /\ UNCHANGED env_vars

\* asyncio.sleep returns in continuous_scraping ("paused": the sleep(1) of
\* the paused branch, "sleep": the monitor_interval sleep); the loop tests
\* is_running and goes round.
Wake ==
    /\ loop_pc \in {"paused", "sleep"}
    /\ loop_pc' = "check"
    /\ UNCHANGED <<feed, latest_tweets, latest_tweets_file, column_file,
                   is_monitoring, task_state, task_tweets,
                   await_idx, results>>
    /\ UNCHANGED <<is_scraping, processing_lock, batch_vars, crashes, retry_vars,
                   monitor_vars, agg_vars, refine_vars>>
    /\ UNCHANGED env_vars

\* The get_column_tweets task of column c runs to completion. A failing page
\* query is caught inside _get_column_tweets_internal, which logs it and
\* returns [] ("error").
GetColumnTweets(c) ==
    /\ task_state[c] = "pending"
    /\ \E page_ok \in BOOLEAN :
         /\ task_tweets' = [task_tweets EXCEPT ![c] =
                IF page_ok
                THEN GetColumnTweetsInternal(feed[c], is_monitoring,
                                             latest_tweets[c])
                ELSE <<>>]
         /\ task_state' = [task_state EXCEPT ![c] =
                IF page_ok THEN "done" ELSE "error"]
    /\ UNCHANGED <<feed, latest_tweets, latest_tweets_file, column_file, loop_pc,
                   is_monitoring, await_idx, results>>
    /\ UNCHANGED <<is_scraping, processing_lock, batch_vars, crashes, retry_vars,
                   monitor_vars, agg_vars, refine_vars>>
    /\ UNCHANGED env_vars

\* The event loop's clock advances by one tick.
Tick ==
    /\ now < MaxTime
    /\ now' = now + 1
    /\ UNCHANGED <<scraper_vars, is_scraping, processing_lock, batch_vars,
                   crashes, retry_vars, last_scrape_time, error_count,
                   backoff, failed_fetches, consecutive_errors,
                   reinit_attempts, agg_vars, refine_vars>>
    /\ UNCHANGED env_vars

\* Mutation of TooSoon: the rate limit never skips.
TooSoon_Never(mon, last, current_time) == FALSE

\* get_column_tweets' rate-limit test: in monitoring mode, with an entry in
\* last_scrape_time, time_since_last < min_scrape_interval.
TooSoon(mon, last, current_time) ==
    mon /\ last # NoTime /\ current_time - last < MinScrapeInterval

\* Does _get_column_tweets_internal raise into get_column_tweets when its
\* page query fails? Its whole body is inside try/except Exception, which
\* logs the error and returns [].
InternalRaises(page_ok) == FALSE

\* get_column_tweets' error counter after the call of
\* _get_column_tweets_internal: 0 when it returned, one more when it raised.
ErrorCountAfter(count, raised) == IF raised THEN count + 1 ELSE 0

\* backoff = min(min_scrape_interval * (2 ** error_count), max_backoff)
Backoff(count) == Min(MinScrapeInterval * Pow2(count), MaxBackoff)

\* The get_column_tweets task of column c runs to completion, with its clock
\* and its error counter: a call that comes too soon returns [] at once
\* ("skipped"); otherwise last_scrape_time is set, the page is queried
\* (page_ok: the query works) and the error counter is updated.
GetColumnTweetsAt(c) ==
    /\ task_state[c] = "pending"
    /\ IF TooSoon(is_monitoring, last_scrape_time[c], now)
       THEN /\ task_tweets' = [task_tweets EXCEPT ![c] = <<>>]
            /\ task_state' = [task_state EXCEPT ![c] = "skipped"]
            /\ UNCHANGED <<last_scrape_time, error_count, backoff,
                           failed_fetches>>
       ELSE \E page_ok \in BOOLEAN :
              LET raised == InternalRaises(page_ok)
                  count == ErrorCountAfter(error_count[c], raised)
              IN
              /\ last_scrape_time' = [last_scrape_time EXCEPT ![c] = now]
              /\ task_tweets' = [task_tweets EXCEPT ![c] =
                     IF page_ok
                     THEN GetColumnTweetsInternal(feed[c], is_monitoring,
                                                  latest_tweets[c])
                     ELSE <<>>]
              /\ task_state' = [task_state EXCEPT ![c] =
                     IF page_ok THEN "done" ELSE "error"]
              /\ error_count' = [error_count EXCEPT ![c] = count]
              /\ backoff' = [backoff EXCEPT ![c] =
                     IF raised THEN Backoff(count) ELSE 0]
              /\ failed_fetches' = [failed_fetches EXCEPT ![c] =
                     IF page_ok THEN 0
                     ELSE Min(failed_fetches[c] + 1, MaxConsecutiveErrors)]
    /\ UNCHANGED <<feed, latest_tweets, latest_tweets_file, column_file, loop_pc,
                   is_monitoring, await_idx, results>>
    /\ UNCHANGED <<is_scraping, processing_lock, batch_vars, crashes, retry_vars,
                   now, consecutive_errors, reinit_attempts, agg_vars, refine_vars>>
    /\ UNCHANGED env_vars

\* Mutation of MonitorTweetsRaises: the error of a failed polling cycle
\* reaches continuous_scraping.
MonitorTweetsRaises_Propagates(poll_failed) == poll_failed

\* Does monitor_tweets raise into continuous_scraping when the polling cycle
\* failed? scrape_all_columns returns [] from its own except block and
\* monitor_tweets returns None from its own.
MonitorTweetsRaises(poll_failed) == FALSE

\* continuous_scraping's consecutive_errors after monitor_tweets: reset to 0
\* when it returned; in the except block one more, and 0 again if the
\* reinitialization made at max_consecutive_errors worked.
ConsecutiveErrorsAfter(n, raised, reinit_ok) ==
    IF ~raised THEN 0
    ELSE IF n + 1 >= MaxConsecutiveErrors /\ reinit_ok THEN 0 ELSE n + 1

\* `if consecutive_errors >= max_consecutive_errors` in the except block.
ReinitAttempted(n, raised) == raised /\ n + 1 >= MaxConsecutiveErrors

\* Mutation of TaskAwaited: scrape_all_columns takes a task's result without
\* waiting for the task.
TaskAwaited_NoWait(state) == TRUE

\* `tweets = await task` returns (or raises) only when the task has finished.
TaskAwaited(state) == state \in {"done", "error", "skipped"}

\* The tasks that are left when scrape_all_columns returns: a task that has
\* finished is gone, one that has not is still running.
TasksLeft(states) ==
    [c \in Columns |-> IF states[c] = "pending" THEN "pending" ELSE "none"]

\* Mutation of LatestId: the id of the last tweet of the result is stored.
LatestId_Last(tweets) == tweets[Len(tweets)]

\* self.latest_tweets[column_id] = tweets[0]['id']
LatestId(tweets) == Head(tweets)

\* Does loading the existing tweets raise? Only monitoring mode loads them,
\* and json.load raises on a file that holds a cut-off JSON text.
LoadRaises(mon, torn) == mon /\ torn

\* scrape_all_columns resumes from `await task` of column c: the latest id is
\* set first, then the column file is rewritten (an I/O error is caught and
\* logged, after the id was set). After the last column the latest ids are
\* saved if any column was written, and the call returns. In monitoring
\* mode monitor_tweets then returns to continuous_scraping, which updates
\* consecutive_errors and goes to sleep.
ProcessColumnResult(c) ==
    /\ loop_pc = "await"
    /\ await_idx = c
    /\ TaskAwaited(task_state[c])
    /\ \E write_ok \in BOOLEAN, save_ok \in BOOLEAN, reinit_ok \in BOOLEAN :
         LET tweets == task_tweets[c]
             poll_failed == \A d \in Columns : task_state[d] = "error"
             raised == MonitorTweetsRaises(poll_failed)
             reinit == ReinitAttempted(consecutive_errors, raised)
             load_raises == LoadRaises(is_monitoring, file_torn[c])
             wrote == tweets # <<>> /\ ~load_raises /\ write_ok
             new_latest == IF tweets # <<>>
                           THEN [latest_tweets EXCEPT ![c] = LatestId(tweets)]
                           ELSE latest_tweets
             new_results == IF wrote THEN results \cup {c} ELSE results
             last == (c = NumColumns)
         IN
         /\ (tweets = <<>> \/ load_raises) => write_ok
         /\ (~last \/ new_results = {}) => save_ok
         /\ ~(last /\ is_monitoring /\ reinit) => reinit_ok
         /\ IF last /\ is_monitoring
            THEN /\ consecutive_errors' =
                      ConsecutiveErrorsAfter(consecutive_errors, raised, reinit_ok)
                 /\ reinit_attempts' =
                      IF reinit THEN reinit_attempts + 1 ELSE reinit_attempts
            ELSE UNCHANGED <<consecutive_errors, reinit_attempts>>
         /\ latest_tweets' = new_latest
         /\ column_file' = IF wrote
                THEN [column_file EXCEPT ![c] =
                        TweetsToSave(tweets, column_file[c], is_monitoring)]
                ELSE column_file
         /\ file_torn' = IF wrote THEN [file_torn EXCEPT ![c] = FALSE]
                         ELSE file_torn
         /\ results' = new_results
         /\ IF last
            THEN /\ latest_tweets_file' = IF new_results # {}
                      THEN SaveLatestTweets(new_latest, latest_tweets_file, save_ok)
                      ELSE latest_tweets_file
                 /\ loop_pc' = IF is_monitoring THEN "sleep" ELSE "check"
                 /\ task_state' = TasksLeft(task_state)
                 /\ task_tweets' = NoData
                 /\ await_idx' = 0
            ELSE /\ await_idx' = c + 1
                 /\ UNCHANGED <<latest_tweets_file, loop_pc, task_state,
                                task_tweets>>
    /\ UNCHANGED <<feed, is_monitoring, published>>
    /\ UNCHANGED <<is_scraping, processing_lock, batch_vars, crashes, retry_vars,
                   now, last_scrape_time, error_count, backoff, failed_fetches,
                   agg_vars, refine_vars>>

\* ------------------------------------------------------------ main.py

\* The stages of process_daily_summaries, in the order of its try block:
\* process_data, score_tweets, refine_tweets, filter_news,
\* send_telegram_updates.
Stages == <<"aggregate", "score", "refine", "categorize", "deliver">>
NumStages == 5

StageIndex(s) == CHOOSE i \in 1..NumStages : Stages[i] = s

\* A fault met by one attempt of a stage's implementation: "none", or
\* "fatal": an exception raised inside the implementation (I/O, a
\* collaborator call, malformed data) outside its per-item handlers.
Faults == {"none", "fatal"}

\* The methods class TweetRefiner defines.
TweetRefinerMethods ==
    {"analyze_similarity", "_handle_repost_or_quote", "group_tweets",
     "_is_valid_tweet", "process_chunk", "process_column", "refine_tweets"}

\* Does the stage's implementation raise to the bot's stage method, given the
\* fault it met?
\*   aggregate:  DataProcessor.process_tweets re-raises (DataProcessingError)
\*   score:      TweetScorer.process_tweets catches every Exception and
\*               returns None
\*   refine:     the bot calls refiner.process_tweets, an attribute lookup
\*   categorize: NewsFilter.process_news re-raises (APIError)
\*   deliver:    send_telegram_updates' outer handler re-raises
ImplRaises(stage, fault) ==
    CASE stage = "aggregate" -> fault = "fatal"
      [] stage = "score" -> FALSE
      [] stage = "refine" -> "process_tweets" \notin TweetRefinerMethods
      [] stage = "categorize" -> fault = "fatal"
      [] stage = "deliver" -> fault = "fatal"

\* max_retries of the with_retry decorator around the stage's implementation
\* (1: not decorated).
StageMaxRetries(stage) ==
    CASE stage = "aggregate" -> 3
      [] stage = "categorize" -> 2
      [] OTHER -> 1

\* Mutation of FinallyResume: polling is resumed after the last stage, not
\* in a finally clause.
FinallyResume_OnlyOnSuccess(outcome, current) ==
    IF outcome = "ok" THEN TRUE ELSE current

\* The value is_scraping has once process_daily_summaries left its try block
\* with `outcome` ("ok" or "raised"): the finally clause sets it to True.
FinallyResume(outcome, current) == TRUE

\* One attempt of stage s (attempt index a) meeting fault f, with st, cp, fm,
\* ff the stages started / completed, fault_met and first_failure so far in
\* this run. The stage's operation has failed when its last attempt met a
\* fault or raised.
StageAttempt(s, a, f, st, cp, fm, ff) ==
    LET raises == ImplRaises(s, f)
        retry == raises /\ a + 1 < StageMaxRetries(s)
        leaves == (raises /\ ~retry) \/ (~raises /\ StageIndex(s) = NumStages)
        outcome == IF raises THEN "raised" ELSE "ok"
        failed == (raises \/ f # "none") /\ ~retry
    IN
    /\ stages_started' = IF a = 0 THEN Append(st, s) ELSE st
    /\ fault_met' = (fm \/ f # "none")
    /\ first_failure' = IF ff = "none" /\ failed THEN s ELSE ff
    /\ stages_completed' = IF raises THEN cp ELSE Append(cp, s)
    /\ batch_attempt' = IF retry THEN a + 1 ELSE 0
    /\ batch_pc' = IF retry THEN s
                   ELSE IF leaves THEN "idle"
                   ELSE Stages[StageIndex(s) + 1]
    /\ batch_outcome' = IF leaves THEN outcome ELSE "running"
    /\ is_scraping' = IF leaves THEN FinallyResume(outcome, FALSE) ELSE FALSE
    /\ processing_lock' = ~leaves

\* run() adds the daily job and starts the scheduler once initial_scrape has
\* returned.
SchedulerStarted ==
    /\ loop_pc \notin {"initial", "stopped"}
    /\ loop_pc = "await" => is_monitoring

\* Mutation of LockFree: the body is entered without the lock.
LockFree_NoLock(lock) == TRUE

\* `async with self._processing_lock` goes on at once when the lock is free
\* and waits while another run holds it.
LockFree(lock) == ~lock

\* The scheduler fires process_daily_summaries: the lock is taken, polling is
\* paused and the first stage is entered, all before the first await.
ProcessDailySummaries ==
    /\ SchedulerStarted
    /\ LockFree(processing_lock)
    /\ \E f \in Faults :
         StageAttempt(Stages[1], 0, f, <<>>, <<>>, FALSE, "none")
    /\ UNCHANGED <<scraper_vars, crashes, retry_vars,
                   monitor_vars, agg_vars, refine_vars>>
    /\ UNCHANGED env_vars

\* process_daily_summaries resumes inside its try block.
BatchStep ==
    /\ batch_pc # "idle"
    /\ \E f \in Faults :
         StageAttempt(batch_pc, batch_attempt, f, stages_started,
                      stages_completed, fault_met, first_failure)
    /\ UNCHANGED <<scraper_vars, crashes, retry_vars,
                   monitor_vars, agg_vars, refine_vars>>
    /\ UNCHANGED env_vars

\* Mutation of CaughtByExcept: the handlers catch whatever is raised.
CaughtByExcept_All(kind) == TRUE

\* `except Exception`, the handler of with_retry's wrapper, of the stage
\* methods and of process_daily_summaries: it catches the errors the stages
\* raise ("error"); asyncio.CancelledError ("cancelled") derives from
\* BaseException and passes through.
CaughtByExcept(kind) == kind = "error"

\* shutdown(), awaited by run()'s finally clause once continuous_scraping
\* has been left: is_running is cleared, the scheduler is shut down and
\* every other task is cancelled, the fetch tasks and a batch run suspended
\* in a stage included. A cancellation that a handler catches is taken for
\* a failure of the attempt; one that passes leaves the try block through
\* its finally clause and releases the lock.
Shutdown ==
    /\ loop_pc # "stopped"
    /\ loop_pc' = "stopped"
    /\ task_state' = NoTasks
    /\ task_tweets' = NoData
    /\ await_idx' = 0
    /\ IF batch_pc = "idle"
       THEN UNCHANGED <<is_scraping, processing_lock, batch_vars>>
       ELSE IF CaughtByExcept("cancelled")
       THEN StageAttempt(batch_pc, batch_attempt, "fatal", stages_started,
                         stages_completed, fault_met, first_failure)
       ELSE /\ batch_pc' = "idle"
            /\ batch_attempt' = 0
            /\ batch_outcome' = "cancelled"
            /\ is_scraping' = FinallyResume("cancelled", FALSE)
            /\ processing_lock' = FALSE
            /\ UNCHANGED <<stages_started, stages_completed, fault_met,
                           first_failure>>
    /\ UNCHANGED <<feed, latest_tweets, latest_tweets_file, column_file,
                   is_monitoring, results>>
    /\ UNCHANGED <<crashes, retry_vars, monitor_vars, agg_vars, refine_vars,
                   env_vars>>

\* A new process starts on the same day: files stay, memory is rebuilt by
\* __init__ of TwitterNewsBot and TweetScraper.
ProcessStarts ==
    /\ crashes' = crashes + 1
    /\ loop_pc' = "initial"
    /\ latest_tweets' = [c \in Columns |-> None]
    /\ is_monitoring' = FALSE
    /\ task_state' = NoTasks
    /\ task_tweets' = NoData
    /\ await_idx' = 0
    /\ results' = {}
    /\ is_scraping' = TRUE
    /\ processing_lock' = FALSE
    /\ batch_pc' = "idle"
    /\ batch_attempt' = 0
    /\ stages_started' = <<>>
    /\ stages_completed' = <<>>
    /\ fault_met' = FALSE
    /\ first_failure' = "none"
    /\ batch_outcome' = "none"
    /\ last_scrape_time' = [c \in Columns |-> NoTime]
    /\ error_count' = [c \in Columns |-> 0]
    /\ consecutive_errors' = 0

\* The process is killed (os._exit on a signal, or a crash) and started
\* again on the same day.
Restart ==
    /\ crashes < MaxCrashes
    /\ ProcessStarts
    /\ UNCHANGED <<feed, latest_tweets_file, column_file, retry_vars, now,
                   backoff, failed_fetches, reinit_attempts, agg_vars, refine_vars>>
    /\ UNCHANGED env_vars

\* The process is killed inside `with open(column['file'], 'w')` of column
\* c, whose result scrape_all_columns is saving: open has emptied the file
\* and os._exit flushes no buffer, so the file keeps a cut-off JSON text.
\* The process is then started again.
KillDuringWrite(c) ==
    /\ crashes < MaxCrashes
    /\ loop_pc = "await" /\ await_idx = c
    /\ task_state[c] = "done" /\ task_tweets[c] # <<>>
    /\ ~LoadRaises(is_monitoring, file_torn[c])
    /\ ProcessStarts
    /\ column_file' = [column_file EXCEPT ![c] = <<>>]
    /\ file_torn' = [file_torn EXCEPT ![c] = TRUE]
    /\ UNCHANGED <<feed, latest_tweets_file, retry_vars, now,
                   backoff, failed_fetches, reinit_attempts, agg_vars, refine_vars,
                   published>>

\* A tweet leaves the sequence the page shows for the column: deleted by
\* its author, or no longer among the tweets the timeline renders.
Vanish(c) ==
    /\ \E i \in 1..Len(feed[c]) :
         feed' = [feed EXCEPT ![c] =
                    SubSeq(feed[c], 1, i - 1) \o SubSeq(feed[c], i + 1, Len(feed[c]))]
    /\ UNCHANGED <<latest_tweets, latest_tweets_file, column_file, loop_pc,
                   is_monitoring, task_state, task_tweets, await_idx, results>>
    /\ UNCHANGED <<is_scraping, processing_lock, batch_vars, crashes, retry_vars,
                   monitor_vars, agg_vars, refine_vars, env_vars>>

\* -------------------------------------------------- error_handler.py

\* The RetryConfig values a decorated function is called with. The call
\* sites use max_retries 2 and 3, base_delay 1.0 and 2.0, max_delay 30.0 and
\* 60.0 (seconds); max_delay 3 makes the cap bite within the bound.
RetryConfigs ==
    [max_retries : 1..MaxRetriesBound, base_delay : {1, 2}, max_delay : {3, 30, 60}]

\* RetryConfig(): the default arguments.
DefaultRetryConfig == [max_retries |-> 3, base_delay |-> 1, max_delay |-> 60]

\* Mutation of RetryDelay: the delay is not capped by max_delay.
RetryDelay_NoCap(cfg, attempt) == cfg.base_delay * Pow2(attempt)

\* delay = min(base_delay * (2 ** attempt), max_delay)
RetryDelay(cfg, attempt) ==
    Min(cfg.base_delay * Pow2(attempt), cfg.max_delay)

\* `if attempt < retry_config.max_retries - 1: await asyncio.sleep(delay)`
SleepsAfter(cfg, attempt) == attempt < cfg.max_retries - 1

\* Mutation of LastAttempt: the loop makes one pass too many.
LastAttempt_OneMore(cfg, attempt) == attempt >= cfg.max_retries

\* `for attempt in range(retry_config.max_retries)`: is this the last pass?
LastAttempt(cfg, attempt) == attempt + 1 >= cfg.max_retries

\* Mutation of LastException: the first error is kept.
LastException_First(errors) == errors[1]

\* `last_exception = e` in every except block, `raise last_exception` after
\* the loop: the error raised is the one of the latest failed attempt.
LastException(errors) == errors[Len(errors)]

\* @with_retry(RetryConfig(max_retries=3, base_delay=2.0)) on
\* initialize_browser, and the one on init_browser (max_delay=30.0).
InitializeBrowserConfig == [max_retries |-> 3, base_delay |-> 2, max_delay |-> 60]
InitBrowserConfig == [max_retries |-> 3, base_delay |-> 2, max_delay |-> 30]

\* No call of initialize_browser is in flight.
NestIdle ==
    /\ ib_pc = "idle"
    /\ ib_attempt = 0
    /\ launches = 0
    /\ launched = 0

WrapperIdle ==
    /\ r_pc = "idle"
    /\ r_attempt = 0
    /\ r_calls = 0
    /\ r_sleeps = <<>>
    /\ r_errors = <<>>
    /\ r_raised = None

RetryIdle ==
    /\ WrapperIdle
    /\ ib_cfg = InitializeBrowserConfig
    /\ NestIdle

\* wrapper is entered: `last_exception = None`, the loop starts at attempt 0.
WrapperStart ==
    /\ r_pc' = "loop"
    /\ r_attempt' = 0
    /\ r_calls' = 0
    /\ r_sleeps' = <<>>
    /\ r_errors' = <<>>
    /\ r_raised' = None

\* A caller invokes the decorated function: wrapper starts its loop.
RetryCall ==
    /\ r_pc \in {"idle", "returned", "raised"}
    /\ WrapperStart
    /\ UNCHANGED nest_vars
    /\ UNCHANGED <<r_cfg, scraper_vars, is_scraping, processing_lock,
                   batch_vars, crashes, monitor_vars, agg_vars, refine_vars>>
    /\ UNCHANGED env_vars

\* One pass of wrapper's loop: func is awaited; it returns (wrapper returns
\* its result) or raises its own error, numbered by the call that raised it.
\* After a failure wrapper sleeps and loops, or, the range exhausted, raises
\* last_exception.
WrapperPass ==
    /\ r_pc = "loop"
    /\ r_calls' = r_calls + 1
    /\ \E ok \in BOOLEAN :
         IF ok
         THEN /\ r_pc' = "returned"
              /\ UNCHANGED <<r_attempt, r_sleeps, r_errors, r_raised>>
         ELSE LET e == r_calls + 1
                  delay == RetryDelay(r_cfg, r_attempt) IN
              /\ r_errors' = Append(r_errors, e)
              /\ r_sleeps' = IF SleepsAfter(r_cfg, r_attempt)
                             THEN Append(r_sleeps, delay) ELSE r_sleeps
              /\ IF LastAttempt(r_cfg, r_attempt)
                 THEN /\ r_pc' = "raised"
                      /\ r_raised' = LastException(Append(r_errors, e))
                      /\ UNCHANGED r_attempt
                 ELSE /\ r_pc' = "loop"
                      /\ r_attempt' = r_attempt + 1
                      /\ UNCHANGED r_raised

RetryAttempt ==
    /\ WrapperPass
    /\ UNCHANGED nest_vars
    /\ UNCHANGED <<r_cfg, scraper_vars, is_scraping, processing_lock,
                   batch_vars, crashes, monitor_vars, agg_vars, refine_vars>>
    /\ UNCHANGED env_vars

\* ------------------------------------------------ main.py, initialize_browser

\* Mutation of InitializeBrowserRaises: a failed init_browser is swallowed.
InitializeBrowserRaises_Swallow(init_ok, rest_ok) == init_ok /\ ~rest_ok

\* The body of initialize_browser raises BrowserError when init_browser did
\* not return True (`if not await self.browser.init_browser(): raise`, and an
\* error of init_browser's wrapper lands in `except Exception`, which closes
\* the browser and raises BrowserError), and when the login or the column
\* identification after it failed.
InitializeBrowserRaises(init_ok, rest_ok) == ~init_ok \/ ~rest_ok

\* A caller awaits initialize_browser(): its wrapper starts its loop, the body
\* builds a BrowserAutomation and awaits init_browser(), whose own wrapper
\* starts its loop.
InitializeBrowser ==
    /\ ib_pc \in {"idle", "returned", "raised"}
    /\ ib_pc' = "init_browser"
    /\ ib_attempt' = 0
    /\ launches' = 0
    /\ launched' = 0
    /\ WrapperStart
    /\ UNCHANGED <<ib_cfg, r_cfg, scraper_vars, is_scraping, processing_lock,
                   batch_vars, crashes, monitor_vars, agg_vars, refine_vars>>
    /\ UNCHANGED env_vars

\* One pass of the loop of init_browser's wrapper: the body of init_browser
\* runs once; it launches the browser and returns True, or the launch fails
\* and it raises BrowserError.
InitBrowserAttempt ==
    /\ ib_pc = "init_browser"
    /\ WrapperPass
    /\ launches' = launches + 1
    /\ launched' = IF r_pc' = "returned" THEN launched + 1 ELSE launched
    /\ ib_pc' = IF r_pc' = "loop" THEN "init_browser" ELSE "resumed"
    /\ UNCHANGED <<ib_cfg, ib_attempt, r_cfg, scraper_vars, is_scraping,
                   processing_lock, batch_vars, crashes, monitor_vars,
                   agg_vars, refine_vars>>
    /\ UNCHANGED env_vars

\* init_browser's wrapper has returned or raised: the body of
\* initialize_browser goes on (login, identify_columns) and returns True, or
\* raises; then its wrapper sleeps and runs the body again, or, the range
\* exhausted, raises last_exception.
InitializeBrowserResume ==
    /\ ib_pc = "resumed"
    /\ \E rest_ok \in BOOLEAN :
         IF InitializeBrowserRaises(r_pc = "returned", rest_ok)
         THEN IF LastAttempt(ib_cfg, ib_attempt)
              THEN /\ ib_pc' = "raised"
                   /\ UNCHANGED <<ib_attempt, r_pc, r_attempt, r_calls,
                                  r_sleeps, r_errors, r_raised>>
              ELSE /\ ib_pc' = "init_browser"
                   /\ ib_attempt' = ib_attempt + 1
                   /\ WrapperStart
         ELSE /\ ib_pc' = "returned"
              /\ UNCHANGED <<ib_attempt, r_pc, r_attempt, r_calls,
                             r_sleeps, r_errors, r_raised>>
    /\ UNCHANGED <<ib_cfg, launches, launched, r_cfg, scraper_vars,
                   is_scraping, processing_lock, batch_vars, crashes,
                   monitor_vars, agg_vars, refine_vars>>
    /\ UNCHANGED env_vars

\* ------------------------------------------------ data_processor.py

\* A text is a sequence of characters, one value per class of character the
\* code tells apart: "a", "b" letters, " " whitespace, "x" a non-printable
\* character, "u" the start of a URL (http://).
EmptyText == <<>>
TwoWords == <<"a", " ", "b">>
Texts ==
    { EmptyText,
      <<" ">>,
      <<"a", " ", "u", "b">>,
      TwoWords,
      <<"b", " ", " ", "a", "x">> }

\* The items of a raw log, with the fields aggregation looks at; id None and
\* authorHandle "" are the missing ones.
TweetIds == {None, 1, 2}
RawItems ==
    [id : TweetIds, text : Texts, authorHandle : {"h"}]
        \cup [id : TweetIds, text : {TwoWords}, authorHandle : {""}]

\* re.sub(r'\s+', ' ', text)
RECURSIVE CollapseSpaces(_)
CollapseSpaces(t) ==
    IF Len(t) < 2 THEN t
    ELSE IF t[1] = " " /\ t[2] = " " THEN CollapseSpaces(Tail(t))
    ELSE <<t[1]>> \o CollapseSpaces(Tail(t))

\* ''.join(char for char in text if char.isprintable())
RECURSIVE RemoveNonPrintable(_)
RemoveNonPrintable(t) ==
    IF t = <<>> THEN <<>>
    ELSE IF Head(t) = "x" THEN RemoveNonPrintable(Tail(t))
    ELSE <<Head(t)>> \o RemoveNonPrintable(Tail(t))

\* re.sub(r'http[s]?://\S+', '', text): the URL goes with every character
\* up to the next whitespace (in_url: inside a match).
RECURSIVE RemoveUrls(_, _)
RemoveUrls(t, in_url) ==
    IF t = <<>> THEN <<>>
    ELSE IF Head(t) = " " THEN <<" ">> \o RemoveUrls(Tail(t), FALSE)
    ELSE IF in_url \/ Head(t) = "u" THEN RemoveUrls(Tail(t), TRUE)
    ELSE <<Head(t)>> \o RemoveUrls(Tail(t), FALSE)

\* text.strip()
RECURSIVE Strip(_)
Strip(t) ==
    IF t = <<>> THEN <<>>
    ELSE IF Head(t) = " " THEN Strip(Tail(t))
    ELSE IF t[Len(t)] = " " THEN Strip(SubSeq(t, 1, Len(t) - 1))
    ELSE t

\* normalize_text (the replacements of typographic quotes and dashes change
\* no character class).
NormalizeText(t) ==
    IF t = EmptyText THEN t
    ELSE Strip(RemoveUrls(RemoveNonPrintable(CollapseSpaces(t)), FALSE))

\* len(text.split()): the runs of non-whitespace characters.
RECURSIVE WordCount(_)
WordCount(t) ==
    IF t = <<>> THEN 0
    ELSE IF Head(t) = " " THEN WordCount(Tail(t))
    ELSE IF Len(t) = 1 \/ t[2] = " " THEN 1 + WordCount(Tail(t))
    ELSE WordCount(Tail(t))

\* is_valid_tweet: a text, of at least 2 words once normalized.
IsValidTweet(tweet) ==
    /\ tweet.text # EmptyText
    /\ WordCount(NormalizeText(tweet.text)) >= 2

\* Mutation of UniqueTweets: a later occurrence of an id replaces the one
\* kept so far.
RECURSIVE UniqueTweets_KeepLast(_, _)
UniqueTweets_KeepLast(tweets, seen_ids) ==
    IF tweets = <<>> THEN <<>>
    ELSE IF \E i \in 2..Len(tweets) : tweets[i].id = Head(tweets).id
         THEN UniqueTweets_KeepLast(Tail(tweets), seen_ids)
         ELSE <<Head(tweets)>> \o UniqueTweets_KeepLast(Tail(tweets), seen_ids)

\* _process_raw_tweets, first loop: the tweets whose id is not in seen_ids
\* yet, in the order of the file.
RECURSIVE UniqueTweets(_, _)
UniqueTweets(tweets, seen_ids) ==
    IF tweets = <<>> THEN <<>>
    ELSE IF Head(tweets).id \in seen_ids
         THEN UniqueTweets(Tail(tweets), seen_ids)
         ELSE <<Head(tweets)>>
                \o UniqueTweets(Tail(tweets), seen_ids \cup {Head(tweets).id})

\* _process_raw_tweets, second loop: the valid tweets, their text normalized.
RECURSIVE NormalizedTweets(_)
NormalizedTweets(unique_tweets) ==
    IF unique_tweets = <<>> THEN <<>>
    ELSE (IF IsValidTweet(Head(unique_tweets))
          THEN <<[Head(unique_tweets) EXCEPT !.text = NormalizeText(@)]>>
          ELSE <<>>)
         \o NormalizedTweets(Tail(unique_tweets))

\* Mutation of AddToTotal: the tweets of the raw log are counted.
AddToTotal_Raw(total, tweets, normalized_tweets) == total + Len(tweets)

\* processed_data['total_tweets'] += len(normalized_tweets)
AddToTotal(total, tweets, normalized_tweets) == total + Len(normalized_tweets)

\* processed_data['total_tweets'] once _process_raw_tweets has gone through
\* the columns loaded among 1..n (cols: their normalized_tweets).
RECURSIVE TotalTweets(_, _, _, _)
TotalTweets(raw, cols, keys, n) ==
    IF n = 0 THEN 0
    ELSE IF n \in keys
         THEN AddToTotal(TotalTweets(raw, cols, keys, n - 1), raw[n], cols[n])
         ELSE TotalTweets(raw, cols, keys, n - 1)

\* _process_raw_tweets for the columns loaded (keys): per column the unique,
\* valid, normalized tweets, and their total number.
ProcessRawTweets(raw, keys) ==
    LET cols == [c \in Columns |->
                    IF c \in keys
                    THEN NormalizedTweets(UniqueTweets(raw[c], {}))
                    ELSE <<>>]
    IN [keys |-> keys, columns |-> cols,
        total_tweets |-> TotalTweets(raw, cols, keys, NumColumns)]

\* processed_tweets_<date>.json before the first run.
NoProcessed == [keys |-> {}, columns |-> NoData, total_tweets |-> 0]

\* Mutation of SaveProcessedTweets: the data is merged into the file.
SaveProcessedTweets_Merge(existing, processed_data) ==
    [keys |-> existing.keys \cup processed_data.keys,
     columns |-> [c \in Columns |->
                    existing.columns[c] \o processed_data.columns[c]],
     total_tweets |-> existing.total_tweets + processed_data.total_tweets]

\* _save_processed_tweets: open(output_file, 'w') and json.dump.
SaveProcessedTweets(existing, processed_data) == processed_data

\* The column files that exist: the scraper writes a file only with tweets.
ColumnFiles(raw) == {c \in Columns : raw[c] # <<>>}

\* No call of process_tweets was made yet.
NoReturn == -1
NoCall == [called |-> FALSE, unreadable |-> {}, keys |-> {},
           save_ok |-> TRUE, raised |-> FALSE, returned |-> NoReturn]

\* Mutation of LoadRawRaises: a file that cannot be read ends the loading.
LoadRawRaises_Fatal(unreadable) == unreadable # {}

\* Does _load_raw_tweets raise when these column files cannot be read? Each
\* file is opened and parsed inside its own try/except Exception, which logs
\* the error and continues with the next file.
LoadRawRaises(unreadable) == FALSE

\* One call of the body of DataProcessor.process_tweets for the date: the
\* column files are loaded (a file that cannot be read is logged and
\* skipped); with none loaded it returns 0; otherwise the tweets are
\* processed, the file is saved and total_tweets is returned. A save that
\* fails raises and leaves the file as it was.
ProcessTweets ==
    /\ Len(agg_log) < MaxRuns
    /\ \E unreadable \in SUBSET ColumnFiles(raw_columns), save_ok \in BOOLEAN :
         LET keys == ColumnFiles(raw_columns) \ unreadable
             processed_data == ProcessRawTweets(raw_columns, keys)
             saved == SaveProcessedTweets(processed_file, processed_data)
             load_raises == LoadRawRaises(unreadable)
             saves == ~load_raises /\ keys # {}
             raises == load_raises \/ (saves /\ ~save_ok)
             wrote == saves /\ save_ok
         IN
         /\ ~saves => save_ok
         /\ processed_file' = IF wrote THEN saved ELSE processed_file
         /\ agg_log' = IF wrote
                THEN Append(agg_log, [keys |-> keys, file |-> saved])
                ELSE agg_log
         /\ agg_result' =
                [called |-> TRUE, unreadable |-> unreadable, keys |-> keys,
                 save_ok |-> save_ok, raised |-> raises,
                 returned |-> IF raises THEN NoReturn
                              ELSE IF keys = {} THEN 0
                              ELSE processed_data.total_tweets]
    /\ UNCHANGED <<raw_columns, scraper_vars, is_scraping, processing_lock,
                   batch_vars, crashes, retry_vars, monitor_vars,
                   refine_vars>>
    /\ UNCHANGED env_vars

\* ------------------------------------------------- tweet_refiner.py

\* repostedContent / quotedContent: None, or {text, authorHandle}. In the
\* refiner a text is the sequence of its words.
NoContent == [present |-> FALSE, text |-> <<>>, authorHandle |-> ""]
Content(text, handle) == [present |-> TRUE, text |-> text, authorHandle |-> handle]

Plain(text, handle) ==
    [text |-> text, authorHandle |-> handle, isRepost |-> FALSE,
     isQuoteRetweet |-> FALSE, repostedContent |-> NoContent,
     quotedContent |-> NoContent]

\* A repost as the scraper records it: its text is the reposted text.
Repost(content) ==
    [text |-> content.text, authorHandle |-> "r", isRepost |-> TRUE,
     isQuoteRetweet |-> FALSE, repostedContent |-> content,
     quotedContent |-> NoContent]

Quote(text, handle, content) ==
    [text |-> text, authorHandle |-> handle, isRepost |-> FALSE,
     isQuoteRetweet |-> TRUE, repostedContent |-> NoContent,
     quotedContent |-> content]

\* The tweets a batch is made of: originals, reposts of <<"a", "b">> whose
\* original matches by text and author, by text only, by author only, a
\* repost without content, a quote adding a word and a quote adding none.
BatchItems ==
    { Plain(<<"a", "b">>, "h"),
      Plain(<<"c", "d">>, "h"),
      Plain(<<"c", "d">>, "g"),
      Repost(Content(<<"a", "b">>, "h")),
      Repost(Content(<<"a", "b">>, "k")),
      Repost(Content(<<"a", "b", "c">>, "h")),
      Repost(NoContent),
      Quote(<<"a", "b", "c">>, "g", Content(<<"a", "b">>, "h")),
      Quote(<<"a", "b">>, "g", Content(<<"a", "b">>, "h")) }

\* The tweets a chunk is made of: two originals, a repost of the first, a
\* repost without content (not valid: it has no text) and a quote of the
\* first.
ChunkItems ==
    { Plain(<<"a", "b">>, "h"),
      Plain(<<"c", "d">>, "g"),
      Repost(Content(<<"a", "b">>, "h")),
      Repost(NoContent),
      Quote(<<"a", "b", "c">>, "g", Content(<<"a", "b">>, "h")) }

\* The batch with ids: the i-th tweet has id i.
WithIds(items) ==
    [i \in 1..Len(items) |->
        [id |-> i, text |-> items[i].text,
         authorHandle |-> items[i].authorHandle,
         isRepost |-> items[i].isRepost,
         isQuoteRetweet |-> items[i].isQuoteRetweet,
         repostedContent |-> items[i].repostedContent,
         quotedContent |-> items[i].quotedContent]]

\* Texts of NumTokens words: the word at position i is its number, and in
\* the k-th variant the last k words are replaced by words the base text
\* does not have.
BaseText == [i \in 1..NumTokens |-> ToString(i)]
VariantText(k) ==
    [i \in 1..NumTokens |->
        IF i > NumTokens - k THEN ToString(NumTokens + i) ELSE ToString(i)]

\* The batches of two non-repost tweets whose texts differ in 0..MaxDiff
\* words, in both orders, by one author or by two.
LexicalBatches ==
    UNION {{<<Plain(BaseText, "h"), Plain(VariantText(k), g)>>,
            <<Plain(VariantText(k), g), Plain(BaseText, "h")>>} :
              k \in 0..MaxDiff, g \in {"h", "g"}}

\* [t['id'] for t in tweets], as a set.
IdsOf(tweets) == {tweets[i].id : i \in 1..Len(tweets)}

\* [t for t in tweets if t['id'] in ids] and its complement.
WithIdIn(tweets, ids) ==
    LET Test(t) == t.id \in ids IN SelectSeq(tweets, Test)
WithIdNotIn(tweets, ids) ==
    LET Test(t) == t.id \notin ids IN SelectSeq(tweets, Test)

\* The decisions of analyze_similarity and _handle_repost_or_quote;
\* "none" is the return value None, "pending" no return yet, "raise" an
\* exception.
Decision(action, ids) == [action |-> action, selected_tweets |-> ids]
KeepAll(ids) == Decision("keep_all", ids)
Select(ids) == Decision("select", ids)
NoDecision == Decision("none", {})
Pending == Decision("pending", {})
Raised == Decision("raise", {})

\* The first of the positions a loop would stop at, or 0 when there is none.
FirstIdx(positions) ==
    IF positions = {} THEN 0
    ELSE CHOOSE i \in positions : \A j \in positions : i <= j

\* set(text.split())
Words(text) == {text[i] : i \in 1..Len(text)}

\* _handle_repost_or_quote: the first repost with content decides (its
\* original is the first non-repost with the same text or the same author;
\* without one the repost is selected); without such a repost, the first
\* quote for which some tweet has the quoted text or author decides.
HandleRepostOrQuote(tweets) ==
    LET N == 1..Len(tweets)
        ri == FirstIdx({i \in N : tweets[i].isRepost
                                     /\ tweets[i].repostedContent.present})
        Quoted(q, o) ==
            \/ o.text = q.quotedContent.text
            \/ o.authorHandle = q.quotedContent.authorHandle
        qi == FirstIdx({i \in N :
                          /\ tweets[i].isQuoteRetweet
                          /\ tweets[i].quotedContent.present
                          /\ \E j \in N : Quoted(tweets[i], tweets[j])})
    IN
    IF ri # 0
    THEN LET repost == tweets[ri]
             oi == FirstIdx({j \in N :
                    /\ ~tweets[j].isRepost
                    /\ \/ tweets[j].text = repost.repostedContent.text
                       \/ tweets[j].authorHandle
                            = repost.repostedContent.authorHandle})
         IN IF oi # 0 THEN Select({tweets[oi].id}) ELSE Select({repost.id})
    ELSE IF qi # 0
    THEN LET quote == tweets[qi]
             other == tweets[FirstIdx({j \in N : Quoted(quote, tweets[j])})]
             quoted_words == Words(quote.quotedContent.text)
             new_words == Words(quote.text) \ quoted_words
         IN IF 10 * Cardinality(new_words) > 3 * Cardinality(quoted_words)
            THEN KeepAll({quote.id, other.id})
            ELSE Select({other.id})
    ELSE NoDecision

\* group_tweets, the loop over repost_tweets: what each repost's decision
\* selects goes to final_tweets and leaves the pool of non-reposts.
RECURSIVE HandleReposts(_, _, _, _)
HandleReposts(repost_tweets, tweets, final_tweets, non_repost_tweets) ==
    IF repost_tweets = <<>>
    THEN [final |-> final_tweets, pool |-> non_repost_tweets]
    ELSE LET repost_result ==
                 HandleRepostOrQuote(<<Head(repost_tweets)>> \o non_repost_tweets)
             ids == repost_result.selected_tweets
         IN IF repost_result.action = "none"
            THEN HandleReposts(Tail(repost_tweets), tweets, final_tweets,
                               non_repost_tweets)
            ELSE HandleReposts(Tail(repost_tweets), tweets,
                               final_tweets \o WithIdIn(tweets, ids),
                               WithIdNotIn(non_repost_tweets, ids))

\* The 'confidence' of a response: a number of hundredths, no such key, or
\* a value that `<` cannot compare with a float (a string, null).
ConfMissing == -1
ConfNotNumber == -2
Confidences == {ConfMissing, ConfNotNumber, 0, 94, 95, 100}

\* What the API call of one pass gives: a 200 response with its JSON
\* (complete: it has 'keep_tweet_ids' and 'reason'; the ids it names are
\* any of `ids`, asked about or not), another status, or an exception
\* (network, timeout, malformed JSON).
Responses(ids) ==
    [status : {"200"}, confidence : Confidences, are_duplicates : BOOLEAN,
     complete : BOOLEAN, keep_tweet_ids : SUBSET ids]
    \cup [status : {"error", "exception"}, confidence : {ConfMissing},
          are_duplicates : {FALSE}, complete : {FALSE}, keep_tweet_ids : {{}}]
NoResponse ==
    [status |-> "none", confidence |-> ConfMissing, are_duplicates |-> FALSE]

\* Mutation of BelowGate: no confidence is too low.
BelowGate_NoGate(confidence) == FALSE

\* `result.get('confidence', 0) < 0.95`
BelowGate(confidence) ==
    (IF confidence = ConfMissing THEN 0 ELSE confidence) < ConfidenceGate

\* analyze_similarity on a 200 response: the decision returned, or Raised
\* (TypeError of the comparison, KeyError of a missing key).
OnResponse(resp, ids) ==
    IF resp.confidence = ConfNotNumber THEN Raised
    ELSE IF BelowGate(resp.confidence) THEN KeepAll(ids)
    ELSE IF ~resp.complete THEN Raised
    ELSE IF resp.are_duplicates THEN Select(resp.keep_tweet_ids)
    ELSE KeepAll(ids)

\* One pass of analyze_similarity's loop: Pending when the loop goes on. An
\* exception in the last pass keeps all tweets; another status in the last
\* pass ends the loop and None is returned.
AnalyzePass(ids, attempt, resp) ==
    LET last == attempt + 1 >= MaxApiRetries
        body == IF resp.status = "200" THEN OnResponse(resp, ids) ELSE Raised
    IN
    IF resp.status = "200" /\ body # Raised THEN body
    ELSE IF resp.status = "error" THEN (IF last THEN NoDecision ELSE Pending)
    ELSE (IF last THEN KeepAll(ids) ELSE Pending)

\* group_tweets up to its await (or its return): reposts are resolved; with
\* more than one non-repost left analyze_similarity is called.
GroupTweets ==
    /\ g_pc = "idle"
    /\ LET IsRepost(t) == t.isRepost
           NotRepost(t) == ~t.isRepost
           h == HandleReposts(SelectSeq(g_tweets, IsRepost), g_tweets, <<>>,
                              SelectSeq(g_tweets, NotRepost))
       IN
       /\ g_pool' = h.pool
       /\ IF Len(h.pool) > 1
          THEN g_final' = h.final /\ g_pc' = "analyze"
          ELSE g_final' = h.final \o h.pool /\ g_pc' = "done"
    /\ sim_attempt' = 0
    /\ UNCHANGED <<g_tweets, sim_response, sim_result, chunk_vars, rfile_vars>>
    /\ UNCHANGED <<scraper_vars, is_scraping, processing_lock, batch_vars,
                   crashes, retry_vars, monitor_vars, agg_vars>>
    /\ UNCHANGED env_vars

\* analyze_similarity resumes from its API call; when it returns,
\* group_tweets extends final_tweets and returns.
AnalyzeSimilarity ==
    /\ g_pc = "analyze"
    /\ \E resp \in Responses(IdsOf(g_tweets)) :
         LET result == AnalyzePass(IdsOf(g_pool), sim_attempt, resp) IN
         /\ sim_response' = [status |-> resp.status,
                             confidence |-> resp.confidence,
                             are_duplicates |-> resp.are_duplicates]
         /\ IF result = Pending
            THEN /\ sim_attempt' = sim_attempt + 1
                 /\ UNCHANGED <<g_pc, g_final, sim_result>>
            ELSE /\ sim_result' = result
                 /\ g_final' = g_final \o
                       (IF result.action = "select"
                        THEN WithIdIn(g_pool, result.selected_tweets)
                        ELSE g_pool)
                 /\ g_pc' = "done"
                 /\ UNCHANGED sim_attempt
    /\ UNCHANGED <<g_tweets, g_pool, chunk_vars, rfile_vars>>
    /\ UNCHANGED <<scraper_vars, is_scraping, processing_lock, batch_vars,
                   crashes, retry_vars, monitor_vars, agg_vars>>
    /\ UNCHANGED env_vars

\* TweetRefiner._is_valid_tweet: the required fields are there, the text has
\* at least 2 words, id and authorHandle are not empty.
RefinerIsValidTweet(t) ==
    /\ Len(t.text) >= 2
    /\ t.id # None
    /\ t.authorHandle # ""

\* process_chunk: what the decision of analyze_similarity adds to
\* refined_tweets: `if result:` and then 'keep_all' or 'select'; for None
\* nothing is added.
ChunkKeeps(result, valid_tweets) ==
    IF result.action = "keep_all" THEN valid_tweets
    ELSE IF result.action = "select"
    THEN WithIdIn(valid_tweets, result.selected_tweets)
    ELSE <<>>

\* process_chunk resumes when group_tweets has returned its one group: the
\* valid tweets of the group are taken; none or one is the result, more are
\* passed to analyze_similarity.
ProcessChunk ==
    /\ g_pc = "done" /\ c_pc = "idle"
    /\ LET valid_tweets == SelectSeq(g_final, RefinerIsValidTweet) IN
       /\ c_valid' = valid_tweets
       /\ IF Len(valid_tweets) > 1
          THEN c_pc' = "analyze" /\ c_refined' = <<>>
          ELSE c_pc' = "done" /\ c_refined' = valid_tweets
    /\ UNCHANGED <<c_attempt, c_status>>
    /\ UNCHANGED <<g_tweets, g_pc, g_pool, g_final, sim_attempt, sim_response,
                   sim_result, rfile_vars>>
    /\ UNCHANGED <<scraper_vars, is_scraping, processing_lock, batch_vars,
                   crashes, retry_vars, monitor_vars, agg_vars>>
    /\ UNCHANGED env_vars

\* The analyze_similarity call of process_chunk resumes from its API call;
\* when it returns, process_chunk extends refined_tweets and returns.
ChunkAnalyze ==
    /\ c_pc = "analyze"
    /\ \E resp \in Responses(IdsOf(g_tweets)) :
         LET result == AnalyzePass(IdsOf(c_valid), c_attempt, resp) IN
         /\ c_status' = resp.status
         /\ IF result = Pending
            THEN /\ c_attempt' = c_attempt + 1
                 /\ UNCHANGED <<c_pc, c_refined>>
            ELSE /\ c_refined' = ChunkKeeps(result, c_valid)
                 /\ c_pc' = "done"
                 /\ UNCHANGED c_attempt
    /\ UNCHANGED c_valid
    /\ UNCHANGED <<g_tweets, g_pc, g_pool, g_final, sim_attempt, sim_response,
                   sim_result, rfile_vars>>
    /\ UNCHANGED <<scraper_vars, is_scraping, processing_lock, batch_vars,
                   crashes, retry_vars, monitor_vars, agg_vars>>
    /\ UNCHANGED env_vars

\* Mutation of AddRefined: the tweets of the column are counted.
AddRefined_Input(total, tweets, refined_tweets) == total + Len(tweets)

\* refined_data['total_tweets'] += len(refined_tweets)
AddRefined(total, tweets, refined_tweets) == total + Len(refined_tweets)

\* refine_tweets, its loop over data['columns'] at the next column: an
\* empty column is passed over; for another, process_column is called,
\* which calls process_chunk with the column's one chunk (a column of up to
\* chunk_size = 10 tweets), which calls group_tweets.
RefineColumn ==
    /\ rf_pc = "next" /\ rf_col <= NumColumns
    /\ IF rf_data[rf_col] = <<>>
       THEN /\ rf_col' = rf_col + 1
            /\ UNCHANGED <<rf_pc, g_tweets>>
       ELSE /\ rf_pc' = "column"
            /\ g_tweets' = rf_data[rf_col]
            /\ UNCHANGED rf_col
    /\ UNCHANGED <<rf_data, refined_data>>
    /\ UNCHANGED <<g_pc, g_pool, g_final, sim_attempt, sim_response,
                   sim_result, chunk_vars>>
    /\ UNCHANGED <<scraper_vars, is_scraping, processing_lock, batch_vars,
                   crashes, retry_vars, monitor_vars, agg_vars>>
    /\ UNCHANGED env_vars

\* process_chunk has returned, and with it process_column: refine_tweets
\* stores the refined tweets of the column and adds their number to
\* total_tweets.
RefineColumnDone ==
    /\ rf_pc = "column" /\ c_pc = "done"
    /\ refined_data' =
          [keys |-> refined_data.keys \cup {rf_col},
           columns |-> [refined_data.columns EXCEPT ![rf_col] = c_refined],
           total_tweets |-> AddRefined(refined_data.total_tweets,
                                       rf_data[rf_col], c_refined)]
    /\ rf_col' = rf_col + 1
    /\ rf_pc' = "next"
    /\ g_tweets' = <<>>
    /\ g_pc' = "idle" /\ g_pool' = <<>> /\ g_final' = <<>>
    /\ sim_attempt' = 0 /\ sim_response' = NoResponse /\ sim_result' = Pending
    /\ c_pc' = "idle" /\ c_valid' = <<>> /\ c_attempt' = 0
    /\ c_status' = "none" /\ c_refined' = <<>>
    /\ UNCHANGED rf_data
    /\ UNCHANGED <<scraper_vars, is_scraping, processing_lock, batch_vars,
                   crashes, retry_vars, monitor_vars, agg_vars>>
    /\ UNCHANGED env_vars

\* refine_tweets after its loop: refined_data is written over the
\* processed file.
RefineSave ==
    /\ rf_pc = "next" /\ rf_col > NumColumns
    /\ rf_pc' = "saved"
    /\ UNCHANGED <<rf_data, rf_col, refined_data>>
    /\ UNCHANGED <<g_tweets, g_pc, g_pool, g_final, sim_attempt, sim_response,
                   sim_result, chunk_vars>>
    /\ UNCHANGED <<scraper_vars, is_scraping, processing_lock, batch_vars,
                   crashes, retry_vars, monitor_vars, agg_vars>>
    /\ UNCHANGED env_vars

\* ---------------------------------------------------- specification

MainInit ==
    /\ feed = NoData
    /\ latest_tweets = [c \in Columns |-> None]
    /\ latest_tweets_file = [c \in Columns |-> None]
    /\ column_file = NoData
    /\ is_scraping = TRUE
    /\ processing_lock = FALSE
    /\ loop_pc = "initial"
    /\ is_monitoring = FALSE
    /\ task_state = NoTasks
    /\ task_tweets = NoData
    /\ await_idx = 0
    /\ results = {}
    /\ batch_pc = "idle"
    /\ batch_attempt = 0
    /\ stages_started = <<>>
    /\ stages_completed = <<>>
    /\ fault_met = FALSE
    /\ first_failure = "none"
    /\ batch_outcome = "none"
    /\ crashes = 0
    /\ now = 0
    /\ last_scrape_time = [c \in Columns |-> NoTime]
    /\ error_count = [c \in Columns |-> 0]
    /\ backoff = [c \in Columns |-> 0]
    /\ failed_fetches = [c \in Columns |-> 0]
    /\ consecutive_errors = 0
    /\ reinit_attempts = 0
    /\ published = [c \in Columns |-> 0]
    /\ file_torn = [c \in Columns |-> FALSE]

AggIdle ==
    /\ raw_columns = NoData
    /\ processed_file = NoProcessed
    /\ agg_log = <<>>
    /\ agg_result = NoCall

\* refine_tweets is not running.
NoRefined == [keys |-> {}, columns |-> NoData, total_tweets |-> 0]
FileIdle ==
    /\ rf_data = NoData
    /\ rf_pc = "idle"
    /\ rf_col = 0
    /\ refined_data = NoRefined

RefineIdle ==
    /\ g_pc = "idle"
    /\ g_pool = <<>>
    /\ g_final = <<>>
    /\ sim_attempt = 0
    /\ sim_response = NoResponse
    /\ sim_result = Pending
    /\ c_pc = "idle"
    /\ c_valid = <<>>
    /\ c_attempt = 0
    /\ c_status = "none"
    /\ c_refined = <<>>

Init ==
    /\ MainInit /\ r_cfg = DefaultRetryConfig /\ RetryIdle /\ AggIdle
    /\ g_tweets = <<>> /\ RefineIdle /\ FileIdle

\* What one running process does.
Next ==
    \/ \E c \in Columns : Arrive(c)
    \/ InitialScrape
    \/ ContinuousScraping
    \/ Wake
    \/ \E c \in Columns : GetColumnTweets(c)
    \/ \E c \in Columns : ProcessColumnResult(c)
    \/ ProcessDailySummaries
    \/ BatchStep

Spec == Init /\ [][Next]_vars

\* The event loop runs a batch that is ready to go on: every stage attempt
\* returns or raises.
FairSpec == Spec /\ WF_vars(BatchStep)

\* with_retry on its own, for every configuration.
RetryInit ==
    /\ MainInit /\ r_cfg \in RetryConfigs /\ RetryIdle /\ AggIdle
    /\ g_tweets = <<>> /\ RefineIdle /\ FileIdle

RetryNext == RetryCall \/ RetryAttempt

RetrySpec == RetryInit /\ [][RetryNext]_vars

\* initialize_browser around init_browser, for every pair of max_retries.
NestInit ==
    /\ MainInit /\ WrapperIdle /\ NestIdle /\ AggIdle
    /\ ib_cfg \in [max_retries : 1..MaxRetriesBound, base_delay : {2},
                   max_delay : {60}]
    /\ r_cfg \in [max_retries : 1..MaxRetriesBound, base_delay : {2},
                  max_delay : {30}]
    /\ g_tweets = <<>> /\ RefineIdle /\ FileIdle

NestNext == InitializeBrowser \/ InitBrowserAttempt \/ InitializeBrowserResume

NestSpec == NestInit /\ [][NestNext]_vars

\* One running process, until shutdown() has run.
ShutdownNext == Next \/ Shutdown

ShutdownSpec == Init /\ [][ShutdownNext]_vars

\* The poller over several process lifetimes.
RestartNext ==
    \/ \E c \in Columns : Arrive(c)
    \/ InitialScrape
    \/ ContinuousScraping
    \/ Wake
    \/ \E c \in Columns : GetColumnTweets(c)
    \/ \E c \in Columns : ProcessColumnResult(c)
    \/ \E c \in Columns : Vanish(c)
    \/ Restart
    \/ \E c \in Columns : KillDuringWrite(c)

RestartSpec == Init /\ [][RestartNext]_vars

\* The poller and the daily batch over several process lifetimes.
CrashNext ==
    \/ Next
    \/ Restart
    \/ \E c \in Columns : KillDuringWrite(c)

CrashSpec == Init /\ [][CrashNext]_vars

\* The polling loop with its clock and its error counters; polling is never
\* paused.
MonitorNext ==
    \/ \E c \in Columns : Arrive(c)
    \/ Tick
    \/ InitialScrape
    \/ ContinuousScraping
    \/ Wake
    \/ \E c \in Columns : GetColumnTweetsAt(c)
    \/ \E c \in Columns : ProcessColumnResult(c)

MonitorSpec == Init /\ [][MonitorNext]_vars

\* The raw logs of a date: per column a sequence of items, MaxLogLen items
\* in all.
RECURSIVE SeqsUpTo(_, _)
SeqsUpTo(S, n) ==
    IF n = 0 THEN {<<>>}
    ELSE LET shorter == SeqsUpTo(S, n - 1)
         IN shorter \cup {Append(q, x) : q \in shorter, x \in S}

RECURSIVE LogsOf(_, _)
LogsOf(n, budget) ==
    IF n = 0 THEN {<<>>}
    ELSE UNION {{Append(rest, q) : rest \in LogsOf(n - 1, budget - Len(q))} :
                    q \in SeqsUpTo(RawItems, budget)}

\* DataProcessor.process_tweets run over every raw log of a date.
AggInit ==
    /\ MainInit /\ r_cfg = DefaultRetryConfig /\ RetryIdle
    /\ raw_columns \in LogsOf(NumColumns, MaxLogLen)
    /\ processed_file = NoProcessed
    /\ agg_log = <<>>
    /\ agg_result = NoCall
    /\ g_tweets = <<>> /\ RefineIdle /\ FileIdle

AggNext == ProcessTweets

AggSpec == AggInit /\ [][AggNext]_vars

\* TweetRefiner.group_tweets called with every batch of up to MaxBatch
\* tweets.
RefineInit ==
    /\ MainInit /\ r_cfg = DefaultRetryConfig /\ RetryIdle /\ AggIdle
    /\ g_tweets \in {WithIds(q) : q \in SeqsUpTo(BatchItems, MaxBatch)}
    /\ RefineIdle /\ FileIdle

RefineNext == GroupTweets \/ AnalyzeSimilarity

RefineSpec == RefineInit /\ [][RefineNext]_vars

\* TweetRefiner.process_chunk called with a chunk.
ChunkNext == RefineNext \/ ProcessChunk \/ ChunkAnalyze

ChunkInit ==
    /\ MainInit /\ r_cfg = DefaultRetryConfig /\ RetryIdle /\ AggIdle
    /\ g_tweets \in {WithIds(q) : q \in SeqsUpTo(ChunkItems, MaxBatch)}
    /\ RefineIdle /\ FileIdle

ChunkSpec == ChunkInit /\ [][ChunkNext]_vars

\* The columns of a processed file: empty, one tweet, two originals.
SmallColumns ==
    { <<>>,
      WithIds(<<Plain(<<"a", "b">>, "h")>>),
      WithIds(<<Plain(<<"a", "b">>, "h"), Plain(<<"c", "d">>, "g")>>) }

\* Columns in which the classifier is asked about some of the tweets only:
\* two originals after a repost of the first, after a repost without
\* content, and after a quote of the first.
MixedColumns ==
    { WithIds(<<first, Plain(<<"a", "b">>, "h"), Plain(<<"c", "d">>, "g")>>) :
        first \in { Repost(Content(<<"a", "b">>, "h")),
                    Repost(NoContent),
                    Quote(<<"a", "b", "c">>, "g", Content(<<"a", "b">>, "h")) } }

\* TweetRefiner.refine_tweets run over a processed file: its first column
\* is any of these, the others are small.
RefineFileInit ==
    /\ MainInit /\ r_cfg = DefaultRetryConfig /\ RetryIdle /\ AggIdle
    /\ g_tweets = <<>> /\ RefineIdle
    /\ rf_data \in {d \in [Columns -> SmallColumns \cup MixedColumns] :
                       \A c \in Columns \ {1} : d[c] \in SmallColumns}
    /\ rf_pc = "next"
    /\ rf_col = 1
    /\ refined_data = NoRefined

RefineFileNext ==
    \/ RefineColumn
    \/ rf_pc = "column" /\ ChunkNext
    \/ RefineColumnDone
    \/ RefineSave

RefineFileSpec == RefineFileInit /\ [][RefineFileNext]_vars

\* TweetRefiner.group_tweets called with two tweets of NumTokens words.
LexicalInit ==
    /\ MainInit /\ r_cfg = DefaultRetryConfig /\ RetryIdle /\ AggIdle
    /\ g_tweets \in {WithIds(q) : q \in LexicalBatches}
    /\ RefineIdle /\ FileIdle

LexicalSpec == LexicalInit /\ [][RefineNext]_vars

\* The event loop runs every coroutine that is ready to go on, and the page
\* answers the queries of every column but the last, whose fetch may take
\* for ever.
SlowSourceSpec ==
    /\ MonitorSpec
    /\ WF_vars(InitialScrape)
    /\ WF_vars(ContinuousScraping)
    /\ WF_vars(Wake)
    /\ \A c \in Columns : WF_vars(ProcessColumnResult(c))
    /\ \A c \in Columns \ {NumColumns} : WF_vars(GetColumnTweetsAt(c))

\* The polling loop when the event loop runs every coroutine that can go on
\* and every fetch returns or raises.
PollFairSpec ==
    /\ SlowSourceSpec
    /\ WF_vars(GetColumnTweetsAt(NumColumns))

\* ------------------------------------------------------------ claims

\* The items of a newest-first sequence that precede the item with this id.
RECURSIVE NewItems(_, _)
NewItems(tweets, id) ==
    IF tweets = <<>> \/ Head(tweets) = id THEN <<>>
    ELSE <<Head(tweets)>> \o NewItems(Tail(tweets), id)

\* The task of column c finishes a successful fetch in this step.
FetchStep(c) == task_state[c] = "pending" /\ task_state'[c] = "done"

\* scrape_all_columns handles the result of column c in this step.
ResultStep(c) ==
    /\ loop_pc = "await" /\ await_idx = c
    /\ task_state[c] \in {"done", "error", "skipped"}
    /\ await_idx' # c
    /\ crashes' = crashes

\* C1: a monitoring poll of a source whose stored latest id is still visible
\* returns every item from the head down to, excluding, that id (for
\* [t3,t2,t1] and latest id t1: [t3,t2]), and a successful write of the
\* result puts it in front of the raw log and sets the latest id to its head.
C1_AllNewItemsCaptured ==
    [][\A c \in Columns :
         /\ (FetchStep(c) /\ is_monitoring /\ latest_tweets[c] # None
               /\ latest_tweets[c] \in Ids(feed[c]))
            => task_tweets'[c] = NewItems(feed[c], latest_tweets[c])
         /\ (ResultStep(c) /\ is_monitoring /\ task_tweets[c] # <<>>
               /\ column_file'[c] # column_file[c])
            => /\ column_file'[c] = task_tweets[c] \o column_file[c]
               /\ latest_tweets'[c] = Head(task_tweets[c])
      ]_vars

\* C2: a monitoring poll whose head id equals the stored latest id yields no
\* item, and handling that result writes nothing: the raw log, the
\* in-memory latest ids and the cycle's results are unchanged, and
\* latest_tweets.json is rewritten in that step only on behalf of other
\* columns' results.
C2_HeadSeenNoWrite ==
    [][\A c \in Columns :
         /\ (FetchStep(c) /\ is_monitoring /\ feed[c] # <<>>
               /\ Head(feed[c]) = latest_tweets[c])
            => task_tweets'[c] = <<>>
         /\ (ResultStep(c) /\ task_tweets[c] = <<>>)
            => /\ column_file' = column_file
               /\ latest_tweets' = latest_tweets
               /\ results' = results
               /\ (results = {} => latest_tweets_file' = latest_tweets_file)
      ]_vars

\* C2 witness: in a monitoring cycle column c was fetched with its head equal
\* to the stored latest id, returned nothing, and its result was handled.
C2_Witness ==
    \E c \in Columns :
        /\ loop_pc = "await" /\ is_monitoring
        /\ task_state[c] = "done" /\ await_idx > c
        /\ task_tweets[c] = <<>>
        /\ feed[c] # <<>> /\ Head(feed[c]) = latest_tweets[c]
        /\ latest_tweets[c] \in Ids(column_file[c])

\* C3: neither the in-memory latest id nor the one in latest_tweets.json is
\* ever an id that is absent from the source's raw log.
C3_IndexNeverAheadOfLog ==
    \A c \in Columns :
        /\ latest_tweets[c] # None => latest_tweets[c] \in Ids(column_file[c])
        /\ latest_tweets_file[c] # None
             => latest_tweets_file[c] \in Ids(column_file[c])

\* C4: no raw log is written while a batch run is in progress.
C4_NoWriteDuringBatch ==
    [][batch_pc # "idle" => column_file' = column_file]_vars

\* C5: whenever is_scraping is False it eventually becomes True again.
C5_PollingResumes == (is_scraping = FALSE) ~> (is_scraping = TRUE)

\* C5 witness: a batch run left its try block by an exception and polling is
\* enabled again.
C5_Witness ==
    batch_pc = "idle" /\ batch_outcome = "raised" /\ is_scraping /\ ~processing_lock

\* C6: the polling loop creates fetch tasks only in a step in which it saw
\* is_scraping True; seeing it False it goes to sleep without fetching.
C6_NoFetchWhilePaused ==
    [][/\ (loop_pc = "check" /\ loop_pc' = "await") => is_scraping
       /\ (loop_pc = "check" /\ ~is_scraping /\ loop_pc' # loop_pc)
            => (loop_pc' = "paused" /\ task_state' = NoTasks)
       /\ (loop_pc # "initial" /\ crashes' = crashes
             /\ \E c \in Columns :
                   task_state[c] # "pending" /\ task_state'[c] = "pending")
            => is_scraping
      ]_vars

\* C6 witness: during a batch run the loop found the flag False and sleeps,
\* with no fetch task created.
C6_Witness ==
    loop_pc = "paused" /\ ~is_scraping /\ batch_pc # "idle" /\ task_state = NoTasks

\* C7: a batch run in which no attempt met a fault completes the five stages
\* once each, in order, deliver included.
C7_CleanBatchRunsAllStages ==
    (batch_pc = "idle" /\ batch_outcome # "none" /\ ~fault_met)
        => stages_completed = Stages

\* C8: once the operation of a stage has failed, no later stage of that run
\* is started.
C8_FailureAbortsRemaining ==
    first_failure # "none" => Len(stages_started) <= StageIndex(first_failure)

\* C9: a with_retry call invokes func at most max_retries times; it returns
\* on the first attempt that succeeds (every earlier attempt raised, none
\* follows), and it raises only after exactly max_retries attempts, all of
\* which raised.
C9_AtMostMaxRetriesCalls ==
    /\ r_calls <= r_cfg.max_retries
    /\ r_pc = "returned" => r_calls = Len(r_errors) + 1
    /\ r_pc = "raised" =>
         (r_calls = r_cfg.max_retries /\ Len(r_errors) = r_cfg.max_retries)
    /\ r_pc = "loop" => (r_calls = Len(r_errors) /\ r_calls = r_attempt)

\* C9 witnesses: a call that returned on a retry, after at least one failed
\* attempt, and a call that raised after all its attempts.
C9_Witness ==
    /\ r_pc = "returned"
    /\ r_cfg.max_retries = 3
    /\ r_calls = 2 /\ Len(r_errors) = 1

\* C10: the k-th sleep (k counted from 0) lasts min(base_delay * 2^k,
\* max_delay); there is one sleep after every failed attempt but the last
\* possible one; for max_retries=3, base_delay=2, max_delay=30 the sleeps
\* of a call that exhausts its attempts are 2, 4; no sleep exceeds max_delay.
C10_BackoffDelays ==
    /\ \A i \in 1..Len(r_sleeps) :
         /\ r_sleeps[i] = IF r_cfg.base_delay * (2 ^ (i - 1)) <= r_cfg.max_delay
                          THEN r_cfg.base_delay * (2 ^ (i - 1))
                          ELSE r_cfg.max_delay
         /\ r_sleeps[i] <= r_cfg.max_delay
    /\ r_pc = "raised" => Len(r_sleeps) = r_cfg.max_retries - 1
    /\ r_pc \in {"loop", "returned"} => Len(r_sleeps) = Len(r_errors)
    /\ (r_pc = "raised"
          /\ r_cfg = [max_retries |-> 3, base_delay |-> 2, max_delay |-> 30])
       => r_sleeps = <<2, 4>>
    /\ (r_pc = "raised"
          /\ r_cfg = [max_retries |-> 4, base_delay |-> 2, max_delay |-> 3])
       => r_sleeps = <<2, 3, 3>>

\* C10 witness: the call with max_retries=3, base_delay=2, max_delay=30 has
\* failed three times and raised.
C10_Witness ==
    /\ r_pc = "raised"
    /\ r_cfg = [max_retries |-> 3, base_delay |-> 2, max_delay |-> 30]
    /\ r_sleeps = <<2, 4>>

\* C11: when every attempt of a with_retry call failed, the error raised to
\* the caller is the one of the final attempt (the max_retries-th call), the
\* last of the errors observed, and with more than one attempt it is neither
\* the first nor an intermediate one.
C11_LastErrorPropagated ==
    /\ r_pc = "raised" =>
         /\ r_raised = r_cfg.max_retries
         /\ r_raised = r_errors[Len(r_errors)]
         /\ \A i \in 1..(Len(r_errors) - 1) : r_raised # r_errors[i]
    /\ r_pc # "raised" => r_raised = None

\* C11 witness: a call with three attempts failed three times with three
\* different errors and raised the third.
C11_Witness ==
    /\ r_pc = "raised"
    /\ r_cfg.max_retries = 3
    /\ r_errors = <<1, 2, 3>>
    /\ r_raised = 3

\* The task of column c ends in this step with a failed page query.
FailedFetchStep(c) == task_state[c] = "pending" /\ task_state'[c] = "error"

\* C12: every failed fetch of a source adds one to that source's error
\* counter and is followed by a backoff of
\* min(min_scrape_interval * 2^error_count, max_backoff); a successful fetch
\* resets the counter to zero; the counter of a source changes only with
\* fetches of that source.
C12_ErrorCounterAndBackoff ==
    [][\A c \in Columns :
         /\ FailedFetchStep(c) =>
               /\ error_count'[c] = error_count[c] + 1
               /\ backoff'[c] = IF MinScrapeInterval * (2 ^ error_count'[c]) <= MaxBackoff
                                THEN MinScrapeInterval * (2 ^ error_count'[c])
                                ELSE MaxBackoff
         /\ FetchStep(c) => error_count'[c] = 0
         /\ task_state'[c] = task_state[c] => error_count'[c] = error_count[c]
      ]_vars

\* C13: every source whose fetches return is fetched again and again,
\* whatever the state of the other sources: while the fetch of the last
\* column is outstanding the other columns still get new fetch tasks.
C13_HealthySourcesKeepPolled ==
    \A c \in Columns \ {NumColumns} : []<>(task_state[c] = "pending")

\* The task of column c ends in this step.
TaskEndStep(c) == task_state[c] = "pending" /\ task_state'[c] # "pending"

\* C14: in monitoring mode the page is queried for a source only when at
\* least min_scrape_interval has passed since the previous query for that
\* source; a poll that comes sooner ends at once with no items, no query
\* (last_scrape_time keeps its value) and no write, and handling its result
\* writes nothing and leaves no task behind for the source.
C14_RateLimitDecimates ==
    [][\A c \in Columns :
         /\ (TaskEndStep(c) /\ is_monitoring /\ last_scrape_time[c] # NoTime
               /\ task_state'[c] \in {"done", "error"})
            => now - last_scrape_time[c] >= MinScrapeInterval
         /\ (TaskEndStep(c) /\ is_monitoring /\ last_scrape_time[c] # NoTime
               /\ now - last_scrape_time[c] < MinScrapeInterval)
            => /\ task_state'[c] = "skipped"
               /\ task_tweets'[c] = <<>>
               /\ last_scrape_time' = last_scrape_time
               /\ column_file' = column_file
               /\ latest_tweets' = latest_tweets
         /\ (ResultStep(c) /\ task_state[c] = "skipped")
            => /\ column_file' = column_file
               /\ latest_tweets' = latest_tweets
               /\ results' = results
               /\ task_state'[c] \in {"skipped", "none"}
      ]_vars

\* C14 witness: a monitoring poll of column c came one tick after the
\* previous query while a new tweet was at the head; it was skipped, its
\* result was handled and the raw log lacks the new tweet.
C14_Witness ==
    \E c \in Columns :
        /\ loop_pc = "await" /\ is_monitoring
        /\ task_state[c] = "skipped" /\ await_idx > c
        /\ now - last_scrape_time[c] = 1
        /\ feed[c] # <<>> /\ Head(feed[c]) # latest_tweets[c]
        /\ Head(feed[c]) \notin Ids(column_file[c])

\* C15: once the fetches of every source have failed
\* max_consecutive_errors times in a row and the cycle of the last failure
\* is over, continuous_scraping has attempted a reinitialization of the
\* browser session.
C15_ReinitAfterRepeatedFailure ==
    (loop_pc = "sleep"
       /\ \A c \in Columns : failed_fetches[c] >= MaxConsecutiveErrors)
    => reinit_attempts >= 1

\* The position of the first item of a log that carries this id.
FirstIndex(log, id) ==
    CHOOSE i \in 1..Len(log) :
        log[i].id = id /\ \A j \in 1..(i - 1) : log[j].id # id

\* C16: in the saved output of every column loaded, no two items share an id;
\* for every id of the raw log the output holds exactly one item with that
\* id, the first occurrence in file order (its text normalized), when that
\* occurrence is valid, and none when it is not; the items are in the order
\* in which their ids first occur in the log.
C16_FirstOccurrenceKeptOnce ==
    \A c \in processed_file.keys :
        LET log == raw_columns[c]
            out == processed_file.columns[c]
        IN
        /\ \A i, j \in 1..Len(out) : i # j => out[i].id # out[j].id
        /\ \A i \in 1..Len(out) : out[i].id \in {log[k].id : k \in 1..Len(log)}
        /\ \A k \in 1..Len(log) :
              LET first == log[FirstIndex(log, log[k].id)]
                  hits == {i \in 1..Len(out) : out[i].id = log[k].id}
              IN
              IF IsValidTweet(first)
              THEN /\ Cardinality(hits) = 1
                   /\ \A i \in hits :
                         /\ out[i].authorHandle = first.authorHandle
                         /\ out[i].text = NormalizeText(first.text)
              ELSE hits = {}
        /\ \A i, j \in 1..Len(out) :
              i < j => FirstIndex(log, out[i].id) < FirstIndex(log, out[j].id)

\* C16 witness: a log of three valid items whose first and third share an id
\* and differ in content was aggregated; the output holds the first and the
\* second.
C16_Witness ==
    \E c \in processed_file.keys :
        LET log == raw_columns[c]
            out == processed_file.columns[c]
        IN
        /\ Len(log) = 3
        /\ log[1].id = log[3].id /\ log[2].id # log[1].id
        /\ \A k \in 1..3 : IsValidTweet(log[k])
        /\ NormalizeText(log[1].text) # NormalizeText(log[3].text)
        /\ Len(out) = 2
        /\ out[1].text = NormalizeText(log[1].text)
        /\ out[2].id = log[2].id

\* C17: two runs of process_tweets that loaded the same column files of
\* unchanged raw logs saved the same file: same columns, same items in the
\* same order, same total.
C17_AggregationIdempotent ==
    /\ \A i, j \in 1..Len(agg_log) :
          agg_log[i].keys = agg_log[j].keys => agg_log[i].file = agg_log[j].file
    /\ Len(agg_log) > 0 => processed_file = agg_log[Len(agg_log)].file

\* C17 witness: process_tweets ran twice over every column file of logs with
\* a duplicate id and saved a non-empty output.
C17_Witness ==
    /\ Len(agg_log) = 2
    /\ agg_log[1].keys = Columns /\ agg_log[2].keys = Columns
    /\ processed_file.total_tweets >= 2
    /\ processed_file.total_tweets < TotalLen(raw_columns, NumColumns)

\* C18: no item of the saved output has an empty or whitespace-only text,
\* fewer than 2 words after normalization, a missing id or a missing
\* authorHandle.
C18_InvalidItemsDropped ==
    \A c \in processed_file.keys :
        \A i \in 1..Len(processed_file.columns[c]) :
            LET item == processed_file.columns[c][i] IN
            /\ item.text # EmptyText
            /\ \E k \in 1..Len(item.text) : item.text[k] # " "
            /\ WordCount(NormalizeText(item.text)) >= 2
            /\ item.id # None
            /\ item.authorHandle # ""

HasOriginal(repost, tweets) ==
    /\ repost.isRepost /\ repost.repostedContent.present
    /\ \E i \in 1..Len(tweets) :
          ~tweets[i].isRepost /\ tweets[i].text = repost.repostedContent.text

\* C20: when group_tweets has returned, no repost whose reposted text is
\* the text of a non-repost tweet of the batch is among the tweets kept, and
\* a non-repost tweet with that text is.
C20_RepostDropsToOriginal ==
    g_pc = "done" =>
        \A i \in 1..Len(g_tweets) :
            HasOriginal(g_tweets[i], g_tweets) =>
                /\ g_tweets[i].id \notin IdsOf(g_final)
                /\ \E k \in 1..Len(g_final) :
                      /\ ~g_final[k].isRepost
                      /\ g_final[k].text = g_tweets[i].repostedContent.text

\* The measures of the lexical-similarity phase, on texts as word sequences:
\* Jaccard similarity of the word sets >= 0.9, share of equal words at the
\* same position over the shorter text >= 0.9, word sets differing in size
\* by at most 3.
LexicallySimilar(t, u) ==
    LET A == Words(t)
        B == Words(u)
        shorter == Min(Len(t), Len(u))
        same == Cardinality({i \in 1..shorter : t[i] = u[i]})
        diff == IF Cardinality(A) >= Cardinality(B)
                THEN Cardinality(A) - Cardinality(B)
                ELSE Cardinality(B) - Cardinality(A)
    IN /\ 10 * Cardinality(A \cap B) >= 9 * Cardinality(A \cup B)
       /\ 10 * same >= 9 * shorter
       /\ diff <= 3

\* C21: group_tweets on two non-repost tweets keeps one of them exactly when
\* their texts are lexically similar: texts of 20 words differing in one
\* word at the same positions are judged similar, texts differing in 4
\* words distinct.
C21_LexicalSimilarityDecides ==
    (g_pc = "done" /\ Len(g_tweets) = 2
       /\ Len(g_tweets[1].text) = NumTokens /\ Len(g_tweets[2].text) = NumTokens)
    => IF LexicallySimilar(g_tweets[1].text, g_tweets[2].text)
       THEN Len(g_final) = 1
       ELSE IdsOf(g_final) = IdsOf(g_tweets)

\* The process exits in this step (and the next one has started).
ExitStep == crashes' # crashes

\* C22: the process never exits between the start and the end of a raw-log
\* write (no exit leaves a cut-off raw log behind), nor between the write
\* of a raw log and the write of latest_tweets.json that belongs to it
\* (no exit while a column written in the running cycle awaits the save).
C22_NoExitDuringPersist ==
    [][ExitStep =>
         /\ file_torn' = file_torn
         /\ ~(loop_pc = "await" /\ results # {})
      ]_vars

\* shutdown() runs in this step.
ShutdownStep == loop_pc # "stopped" /\ loop_pc' = "stopped"

\* C23: when shutdown() cancels a batch run that holds the processing lock,
\* the run ends in that step as cancelled: no attempt is retried and no
\* further stage is started, the outcome is not an application error, the
\* lock is released and is_scraping is True.
C23_CancelledBatchReleasesLock ==
    [][(ShutdownStep /\ batch_pc # "idle" /\ processing_lock) =>
         /\ batch_pc' = "idle"
         /\ batch_attempt' = 0
         /\ stages_started' = stages_started
         /\ stages_completed' = stages_completed
         /\ batch_outcome' = "cancelled"
         /\ first_failure' = first_failure
         /\ ~processing_lock'
         /\ is_scraping'
      ]_vars

\* C23 witness: shutdown() has cancelled a batch run that was in a retry of
\* its first stage; polling is enabled and the lock is free.
C23_Witness ==
    /\ loop_pc = "stopped"
    /\ batch_outcome = "cancelled"
    /\ stages_started = <<"aggregate">> /\ fault_met
    /\ batch_pc = "idle" /\ ~processing_lock /\ is_scraping

\* C24: when scrape_all_columns has saved the non-empty result of a
\* monitoring poll of column c, the raw log of c is that result followed by
\* the log's previous content, the latest id of c is the id of the result's
\* first item, and no other column's log or latest id has changed.
C24_MonitoringPrepends ==
    [][\A c \in Columns :
         (ResultStep(c) /\ is_monitoring /\ task_state[c] = "done"
            /\ task_tweets[c] # <<>> /\ c \in results')
         => /\ column_file'[c] = task_tweets[c] \o column_file[c]
            /\ latest_tweets'[c] = Head(task_tweets[c])
            /\ \A d \in Columns \ {c} :
                  /\ column_file'[d] = column_file[d]
                  /\ latest_tweets'[d] = latest_tweets[d]
      ]_vars

\* C24 witness: a monitoring poll of column c found one new tweet above a
\* log of two; the log now has three items, the new one first, and the
\* latest id is the new one.
C24_Witness ==
    \E c \in Columns :
        /\ is_monitoring /\ c \in results
        /\ Len(column_file[c]) = 3
        /\ column_file[c] = <<3, 2, 1>>
        /\ latest_tweets[c] = 3
        /\ latest_tweets_file[c] = 3

\* C25: no id occurs twice in the raw log of a column.
C25_NoDuplicateIdsInLog ==
    \A c \in Columns :
        \A i, j \in 1..Len(column_file[c]) :
            i # j => column_file[c][i] # column_file[c][j]

\* C26: an item that is in the raw log of a column is still in it after
\* every step: a poll, a batch step, a restart.
C26_RawItemsRetained ==
    [][\A c \in Columns : Ids(column_file[c]) \subseteq Ids(column_file'[c])]_vars

\* C27: the fetch of the initial scrape (is_monitoring False) returns the
\* whole visible sequence of the column whatever the stored latest id is,
\* also when the head is that id; and when scrape_all_columns has saved
\* that result, the raw log of the column is exactly the result: the log's
\* previous content is gone.
C27_InitialFetchReplaces ==
    [][\A c \in Columns :
         /\ (FetchStep(c) /\ ~is_monitoring) => task_tweets'[c] = feed[c]
         /\ (ResultStep(c) /\ ~is_monitoring /\ c \in results')
            => /\ column_file'[c] = task_tweets[c]
               /\ latest_tweets'[c] = Head(task_tweets[c])
      ]_vars

\* C27 witness: after a restart the initial scrape has saved the first
\* column and not yet the second, so latest_tweets.json still holds what it
\* held at the restart: id 2 for the first column, the head of what the
\* column shows. Only tweet 2 is visible of the two published, and the log
\* the scrape wrote is [2].
C27_Witness ==
    /\ crashes = 1 /\ ~is_monitoring
    /\ loop_pc = "await" /\ await_idx = 2
    /\ 1 \in results
    /\ published[1] = 2
    /\ feed[1] = <<2>>
    /\ latest_tweets_file[1] = 2
    /\ column_file[1] = <<2>>

\* scrape_all_columns creates its tasks in this step.
TasksCreated == loop_pc # "await" /\ loop_pc' = "await"

\* C28: at most one get_column_tweets call per column is in progress: when
\* the initial scrape or a poll of the loop creates the task of a column, no
\* earlier task of that column is still running, and a running task is only
\* ever replaced by its own result.
C28_OneFetchPerColumn ==
    [][\A c \in Columns :
         /\ TasksCreated => task_state[c] # "pending"
         /\ (task_state[c] = "pending" /\ crashes' = crashes)
            => task_state'[c] \in {"pending", "done", "error", "skipped"}
      ]_vars

\* C28 witness: a poll of the loop has the tasks of all columns in progress
\* at once, after an earlier scrape had fetched and saved the first column.
C28_Witness ==
    /\ is_monitoring /\ loop_pc = "await"
    /\ \A c \in Columns : task_state[c] = "pending"
    /\ column_file[1] # <<>>

\* An attempt of the aggregate stage runs in this step: process_data calls
\* DataProcessor.process_tweets, which reads every raw log of the date.
AggregateStep ==
    /\ batch_pc \in {"idle", "aggregate"}
    /\ crashes' = crashes
    /\ <<batch_vars, is_scraping, processing_lock>>'
          # <<batch_vars, is_scraping, processing_lock>>

\* C29: whenever the aggregate stage reads the raw logs, every raw log holds
\* the complete content of a finished write: none holds the cut-off text of
\* a write that was under way when the process was stopped.
C29_BatchNeverReadsTornLog ==
    [][AggregateStep => \A c \in Columns : ~file_torn[c]]_vars

\* C30: errors of a poll are contained. Whatever the fetches and the writes
\* of a cycle did, handling the result of column c leaves the raw logs of
\* the other columns as they are and goes on to the next column, or, after
\* the last one, returns to continuous_scraping without an exception:
\* consecutive_errors stays 0, no reinitialization is made, and the loop
\* sleeps and comes round again. The loop's test is reached again and
\* again.
C30_PollingErrorsContained ==
    /\ [][\A c \in Columns : ResultStep(c) =>
            /\ \A d \in Columns \ {c} : column_file'[d] = column_file[d]
            /\ consecutive_errors' = 0
            /\ reinit_attempts' = reinit_attempts
            /\ IF c = NumColumns
               THEN loop_pc' = IF is_monitoring THEN "sleep" ELSE "check"
               ELSE loop_pc' = "await" /\ await_idx' = c + 1
        ]_vars
    /\ []<>(loop_pc = "check")

\* C30 witness: a poll has ended in which the fetch of the first column
\* failed and the result of the second column was saved; nothing reached
\* continuous_scraping.
C30_Witness ==
    /\ is_monitoring /\ loop_pc = "sleep"
    /\ failed_fetches[1] >= 1
    /\ last_scrape_time[1] = last_scrape_time[2]
    /\ results = {2}
    /\ column_file[2] # <<>>
    /\ consecutive_errors = 0

\* The batch is aborted in this step: the attempt of stage batch_pc raised
\* and process_daily_summaries was left through its except block.
AbortStep ==
    /\ batch_pc # "idle" /\ batch_pc' = "idle"
    /\ batch_outcome' = "raised"
    /\ crashes' = crashes

\* C31: a stage whose operation fails is attempted again before the batch is
\* aborted: the attempt that aborts the batch is never the stage's first.
C31_EveryStageRetried ==
    [][AbortStep => batch_attempt >= 1]_vars

\* C32: a call of process_tweets in which some column files could not be
\* read, and whose save did not fail, has not raised; when another file
\* could be read, the saved output has exactly the readable columns, each
\* with the unique valid items of its raw log, and nothing for a column
\* that could not be read.
C32_UnreadableSourceSkipped ==
    (agg_result.called /\ agg_result.unreadable # {} /\ agg_result.save_ok)
    => /\ ~agg_result.raised
       /\ agg_result.keys # {} =>
            /\ processed_file.keys = agg_result.keys
            /\ \A c \in agg_result.unreadable :
                  processed_file.columns[c] = <<>>
            /\ \A c \in agg_result.keys :
                  processed_file.columns[c]
                      = NormalizedTweets(UniqueTweets(raw_columns[c], {}))

\* C32 witness: of two column files one could not be read; the call
\* returned and the output holds items of the other column only.
C32_Witness ==
    /\ agg_result.called /\ ~agg_result.raised
    /\ Cardinality(agg_result.unreadable) = 1
    /\ Cardinality(agg_result.keys) = 1
    /\ processed_file.keys = agg_result.keys
    /\ processed_file.total_tweets >= 1
    /\ agg_result.returned = processed_file.total_tweets

\* C33: total_tweets of the saved output is the sum over the columns of the
\* number of items stored for the column, and a call of process_tweets that
\* saved an output returned that number.
C33_TotalIsSumOfStored ==
    /\ processed_file.total_tweets
          = TotalLen(processed_file.columns, NumColumns)
    /\ (agg_result.called /\ ~agg_result.raised /\ agg_result.keys # {})
          => agg_result.returned = processed_file.total_tweets

\* C33 witness: both columns were loaded, each has items in the output and
\* an item of the raw logs was dropped; the call returned the total.
C33_Witness ==
    /\ agg_result.called /\ ~agg_result.raised
    /\ agg_result.keys = Columns
    /\ \A c \in Columns : Len(processed_file.columns[c]) >= 1
    /\ processed_file.total_tweets < TotalLen(raw_columns, NumColumns)
    /\ agg_result.returned = 2

\* The quote adds more than 30% new words, relative to the words of the
\* quoted text.
AddsNewContent(quote) ==
    10 * Cardinality(Words(quote.text) \ Words(quote.quotedContent.text))
        > 3 * Cardinality(Words(quote.quotedContent.text))

\* o is the tweet q quotes: a tweet of its own, by the quoted author and
\* with the quoted text.
IsQuotedOriginal(o, q) ==
    /\ ~o.isRepost /\ ~o.isQuoteRetweet
    /\ o.text = q.quotedContent.text
    /\ o.authorHandle = q.quotedContent.authorHandle

\* C34: when group_tweets has returned, for every quote of the batch whose
\* quoted original is in the batch: the original is kept, and the quote is
\* kept exactly when it adds more than 30% new words.
C34_QuoteKeptOnNewContent ==
    g_pc = "done" =>
        \A i, j \in 1..Len(g_tweets) :
            LET q == g_tweets[i]
                o == g_tweets[j]
            IN
            (q.isQuoteRetweet /\ q.quotedContent.present
               /\ IsQuotedOriginal(o, q))
            => /\ o.id \in IdsOf(g_final)
               /\ q.id \in IdsOf(g_final) <=> AddsNewContent(q)

\* A batch run enters its stage sequence in this step while the stages of
\* an earlier run are on record.
RunStartsOver ==
    /\ Len(stages_started') < Len(stages_started)
    /\ crashes' = crashes

\* C35: is_scraping is False only while a batch run holds the lock (with the
\* lock free it is True), the lock is held exactly while a run is in its
\* stage sequence, and a run enters the sequence only when no other run is
\* in it.
C35_FlagCoupledToLock ==
    /\ [](/\ ~is_scraping => processing_lock
          /\ processing_lock <=> batch_pc # "idle")
    /\ [][RunStartsOver => (batch_pc = "idle" /\ ~processing_lock)]_vars

\* C35 witness: a batch run is in its second stage, holding the lock, and
\* the polling loop has seen the flag and is in its paused sleep.
C35_Witness ==
    /\ processing_lock /\ ~is_scraping
    /\ batch_pc = "score"
    /\ loop_pc = "paused"

\* C36: once the scrape in progress, or the last one made, has written the
\* new items of a column, the in-memory latest id of the column is the id
\* of the first item of its raw log.
C36_IndexIsHeadOfLog ==
    \A c \in results :
        /\ column_file[c] # <<>>
        /\ latest_tweets[c] = Head(column_file[c])

\* C36 witness: an initial scrape wrote one tweet of a column and a
\* monitoring poll has written a second one in front of it.
C36_Witness ==
    \E c \in results :
        /\ is_monitoring
        /\ column_file[c] = <<2, 1>>
        /\ latest_tweets[c] = 2

\* Every attempt of process_chunk's analyze_similarity call has failed: the
\* last of its passes was made and got no 200 response.
ChunkCallFailed ==
    /\ c_pc = "done"
    /\ c_attempt = MaxApiRetries - 1
    /\ c_status \in {"error", "exception"}

\* C37: when every attempt of analyze_similarity has failed, by an
\* exception or by a response other than 200, process_chunk returns every
\* valid tweet of the group it asked about.
C37_OutageKeepsAll ==
    ChunkCallFailed => c_refined = c_valid

\* The tweets of a sequence, as a set.
Items(tweets) == {tweets[i] : i \in 1..Len(tweets)}

\* C38: every refined column holds only tweets of the column it was refined
\* from, no id twice, whatever ids the classifier named; and total_tweets
\* of the refined data is the sum of the lengths of the refined columns.
C38_RefinementAddsNothing ==
    /\ \A c \in refined_data.keys :
          LET out == refined_data.columns[c] IN
          /\ Items(out) \subseteq Items(rf_data[c])
          /\ \A i, j \in 1..Len(out) : i # j => out[i].id # out[j].id
    /\ refined_data.total_tweets
          = TotalLen(refined_data.columns, NumColumns)

\* C38 witness: refine_tweets has saved; the first column had three tweets
\* and lost one, the second kept its two.
C38_Witness ==
    /\ rf_pc = "saved"
    /\ Len(rf_data[1]) = 3 /\ Len(refined_data.columns[1]) = 2
    /\ Len(refined_data.columns[2]) = 2
    /\ refined_data.total_tweets = 4

\* C39: retry bounds multiply when decorated functions are nested. A call of
\* initialize_browser during which no launch succeeded has ended by raising,
\* after the body of init_browser ran max_retries (outer) * max_retries
\* (inner) times, 3 * 3 = 9 with the decorators of the source; and no call
\* runs that body more often.
C39_RetryBoundsMultiply ==
    /\ (ib_pc \in {"returned", "raised"} /\ launched = 0)
          => /\ ib_pc = "raised"
             /\ launches = ib_cfg.max_retries * r_cfg.max_retries
    /\ launches <= ib_cfg.max_retries * r_cfg.max_retries
    /\ (ib_cfg = InitializeBrowserConfig /\ r_cfg = InitBrowserConfig)
          => /\ launches <= 9
             /\ (ib_pc = "raised" /\ launched = 0) => launches = 9

\* The decorators of the source, every launch failed, the error propagated.
C39_Witness ==
    /\ ib_cfg = InitializeBrowserConfig /\ r_cfg = InitBrowserConfig
    /\ ib_pc = "raised" /\ launched = 0 /\ launches = 9
    /\ ib_attempt = 2 /\ r_calls = 3

====
